---------------------------- MODULE Spec2Model ----------------------------
(***************************************************************************)
(* dubbo-py: the Hessian-2 / Dubbo frame codec (dubbo/codec/hessian2.py,   *)
(* dubbo/utils.py), the client connection (dubbo/client.py) and the        *)
(* server connection (dubbo/server.py).                                    *)
(*                                                                         *)
(* Bytes are naturals 0..255 and byte strings are sequences of them.  A    *)
(* Python exception raised by a pure function is the result Fail (any      *)
(* exception other than EOFError) or EofFail (EOFError).  TLC's integers   *)
(* are 32 bits wide, so the modelled numbers stay inside -2^31+1..2^31-1.  *)
(***************************************************************************)
EXTENDS Integers, Sequences, FiniteSets, TLC

\* ------------------------------------------------------------------------
\* Python exceptions as values

\* any exception that is not EOFError (RuntimeError, struct.error, OverflowError, ...)
Fail == <<-1>>

\* EOFError
EofFail == <<-2>>

IsFail(bs) == bs = Fail \/ bs = EofFail

\* b1 + b2 where either operand may already have raised
Cat(a, b) ==
    IF IsFail(a) THEN a ELSE IF IsFail(b) THEN b ELSE a \o b

\* ------------------------------------------------------------------------
\* dubbo/utils.py

\* n >> (8 * len), n >= 0
RECURSIVE ShiftRight8(_, _)
ShiftRight8(n, len) ==
    IF len = 0 THEN n ELSE ShiftRight8(n \div 256, len - 1)

\* int.bit_length(): the number of bits of abs(n)
RECURSIVE bit_length(_)
bit_length(n) ==
    LET a == IF n < 0 THEN 0 - n ELSE n
    IN  IF a = 0 THEN 0 ELSE 1 + bit_length(a \div 2)

\* the len low bytes of n >= 0, big-endian
RECURSIVE BigEndian(_, _)
BigEndian(n, len) ==
    IF len = 0 THEN <<>> ELSE Append(BigEndian(n \div 256, len - 1), n % 256)

\* int.to_bytes(len, 'big', signed=signed): OverflowError when num does not fit
to_bytes(num, len, signed) ==
    IF ~signed
    THEN IF num < 0 \/ ShiftRight8(num, len) # 0 THEN Fail ELSE BigEndian(num, len)
    ELSE IF len = 0 THEN Fail
         ELSE IF num >= 0
              THEN IF ShiftRight8(num, len) # 0 \/ BigEndian(num, len)[1] >= 128
                   THEN Fail ELSE BigEndian(num, len)
              ELSE LET m == (0 - num) - 1
                   IN  IF ShiftRight8(m, len) # 0 \/ BigEndian(m, len)[1] >= 128
                       THEN Fail
                       ELSE [i \in 1..len |-> 255 - BigEndian(m, len)[i]]

\* struct.pack('>i' or '>I', num); every modelled number is below 2^31, so
\* only the lower limit of '>I' can be missed
struct_pack4(num, signed) ==
    IF ~signed /\ num < 0 THEN Fail
    ELSE IF num >= 0 THEN BigEndian(num, 4)
         ELSE [i \in 1..4 |-> 255 - BigEndian((0 - num) - 1, 4)[i]]

\* int_to_bytes(num, length=None, signed=False); length 0 stands for None
int_to_bytes(num, length, signed) ==
    LET padded(int_bytes) ==
            IF IsFail(int_bytes) THEN int_bytes
            ELSE IF length # 0 /\ length - Len(int_bytes) > 0
                 THEN [i \in 1..(length - Len(int_bytes)) |-> 0] \o int_bytes
                 ELSE int_bytes
    IN  IF length = 4 THEN struct_pack4(num, signed)
        ELSE padded(IF num = 0 THEN <<0>>
                    ELSE to_bytes(num, (bit_length(num) + 7) \div 8, signed))

\* long_to_bytes(num) = struct.pack('>Q', num)
long_to_bytes(num) ==
    IF num < 0 THEN Fail ELSE BigEndian(num, 8)

\* reduce(lambda x, y: x * 256 + y, bs): TypeError on an empty byte string
RECURSIVE bytes_to_uint(_)
bytes_to_uint(bs) ==
    IF Len(bs) = 1 THEN bs[1]
    ELSE bytes_to_uint(SubSeq(bs, 1, Len(bs) - 1)) * 256 + bs[Len(bs)]

\* int.from_bytes(bs, 'big', signed=True) for 1, 2 or 3 bytes; 4 bytes by
\* the sign of the first
bytes_to_sint(bs) ==
    IF bs[1] < 128 THEN bytes_to_uint(bs)
    ELSE 0 - (bytes_to_uint([i \in 1..Len(bs) |-> 255 - bs[i]]) + 1)

\* bytes_to_int(bs, signed=False)
bytes_to_int(bs, signed) ==
    IF signed THEN bytes_to_sint(bs) ELSE bytes_to_uint(bs)

\* bytes_to_long(bs)
bytes_to_long(bs) == bytes_to_int(bs, FALSE)

\* ------------------------------------------------------------------------
\* Python values.  t is type(x).__name__; v is the number of an int, long,
\* bool (0, 1), float or double (integral doubles only: IEEE rounding is
\* outside the model, a fraction is kept in thousandths in s); s holds the
\* code points of a str or the bytes of a bytes; kv holds the
\* <<key, value>> pairs of a dict.

PyNone == [t |-> "NoneType", v |-> 0, s |-> <<>>]
PyBool(b) == [t |-> "bool", v |-> IF b THEN 1 ELSE 0, s |-> <<>>]
PyInt(n) == [t |-> "int", v |-> n, s |-> <<>>]
PyLong(n) == [t |-> "long", v |-> n, s |-> <<>>]
PyFloat(n) == [t |-> "float", v |-> n, s |-> <<>>]
\* the float m / 1000
PyMillis(m) ==
    [t |-> "float", v |-> m \div 1000, s |-> IF m % 1000 = 0 THEN <<>> ELSE <<m % 1000>>]
PyDouble(n) == [t |-> "double", v |-> n, s |-> <<>>]
PyStr(cs) == [t |-> "str", v |-> 0, s |-> cs]
PyDict(kvs) == [t |-> "dict", v |-> 0, s |-> <<>>, kv |-> kvs]
PyBytes(bs) == [t |-> "bytes", v |-> 0, s |-> bs]
\* a float known only by its 8 IEEE-754 bytes
PyIeee(bs) == [t |-> "float", v |-> 0, s |-> <<>>, ieee |-> bs]

\* Python's ==: numbers compare by value whatever their type
PyEq(a, b) ==
    LET num == {"bool", "int", "long", "float", "double"}
    IN  IF a.t \in num /\ b.t \in num THEN a.v = b.v /\ a.s = b.s
        ELSE IF a.t \in num \/ b.t \in num THEN FALSE
        ELSE IF a.t = "dict" \/ b.t = "dict" THEN a.t = b.t /\ a.kv = b.kv
        ELSE a.t = b.t /\ a.s = b.s

\* str.encode(): UTF-8 of a sequence of code points (below 0x10000 here),
\* one half of the string after the other
RECURSIVE utf8(_)
utf8(cs) ==
    IF cs = <<>> THEN <<>>
    ELSE IF Len(cs) = 1
         THEN IF cs[1] < 128 THEN <<cs[1]>>
              ELSE IF cs[1] < 2048 THEN <<192 + (cs[1] \div 64), 128 + (cs[1] % 64)>>
              ELSE <<224 + (cs[1] \div 4096), 128 + ((cs[1] \div 64) % 64),
                     128 + (cs[1] % 64)>>
         ELSE utf8(SubSeq(cs, 1, Len(cs) \div 2))
                  \o utf8(SubSeq(cs, Len(cs) \div 2 + 1, Len(cs)))

\* ------------------------------------------------------------------------
\* dubbo/codec/hessian2.py: the encoder

_BC_INT_ZERO == 144
_BC_INT_BYTE_ZERO == 200
_BC_INT_SHORT_ZERO == 212
_BC_LONG_ZERO == 224
_BC_LONG_BYTE_ZERO == 248
_BC_LONG_SHORT_ZERO == 60
_BC_LONG_INT == 89
_BC_DOUBLE_ZERO == 91
_BC_DOUBLE_ONE == 92
_BC_DOUBLE_BYTE == 93
_BC_DOUBLE_SHORT == 94
_BC_DOUBLE_MILL == 95
_BC_REF == 81
_STRING_DIRECT_MAX == 31
_STRING_SHORT_MAX == 1023
_BC_STRING_SHORT == 48

\* the str branch of encode_object
encode_str(field) ==
    LET length == Len(field.s)
    IN  IF length <= _STRING_DIRECT_MAX
        THEN Cat(int_to_bytes(length, 0, FALSE), utf8(field.s))
        ELSE IF length <= _STRING_SHORT_MAX
             THEN Cat(int_to_bytes(_BC_STRING_SHORT * 256 + length, 0, FALSE), utf8(field.s))
             ELSE Cat(<<83>>, Cat(int_to_bytes(length, 0, FALSE), utf8(field.s)))

\* the long branch of encode_object
encode_long(field) ==
    IF -8 <= field.v /\ field.v <= 15
    THEN int_to_bytes(field.v + _BC_LONG_ZERO, 0, FALSE)
    ELSE IF -2048 <= field.v /\ field.v <= 2047
         THEN int_to_bytes(_BC_LONG_BYTE_ZERO * 256 + field.v, 0, FALSE)
         ELSE IF -262144 <= field.v /\ field.v <= 262143
              THEN int_to_bytes(_BC_LONG_SHORT_ZERO * 65536 + field.v, 0, FALSE)
              \* every modelled long fits a signed 32-bit value: 'L' is not reached
              ELSE Cat(<<_BC_LONG_INT>>, int_to_bytes(field.v, 4, FALSE))

\* the int branch of encode_object
encode_int(field) ==
    IF field.v >= -16 /\ field.v <= 47
    THEN int_to_bytes(field.v + _BC_INT_ZERO, 0, FALSE)
    ELSE IF field.v >= -2048 /\ field.v <= 2047
         THEN int_to_bytes(_BC_INT_BYTE_ZERO * 256 + field.v, 0, FALSE)
         ELSE IF field.v >= -262144 /\ field.v <= 262143
              THEN int_to_bytes(_BC_INT_SHORT_ZERO * 65536 + field.v, 0, FALSE)
              ELSE Cat(<<73>>, int_to_bytes(field.v, 4, FALSE))

\* the (float, double) branch of encode_object; mills * 0.001 == field is
\* taken to hold for the values kept in thousandths
encode_float(field) ==
    IF field.s # <<>>
    THEN Cat(<<_BC_DOUBLE_MILL>>, int_to_bytes(field.v * 1000 + field.s[1], 4, TRUE))
    ELSE IF field.v = 0 THEN <<_BC_DOUBLE_ZERO>>
    ELSE IF field.v = 1 THEN <<_BC_DOUBLE_ONE>>
    ELSE IF field.v \in -128..127
         THEN Cat(<<_BC_DOUBLE_BYTE>>, int_to_bytes(field.v, 0, TRUE))
         ELSE IF field.v \in -32768..32767
              THEN Cat(<<_BC_DOUBLE_SHORT>>, int_to_bytes(field.v, 0, TRUE))
              ELSE Cat(<<_BC_DOUBLE_MILL>>, int_to_bytes(field.v * 1000, 4, TRUE))

\* encode_object(field): the bytes, or Fail for the exception raised
RECURSIVE encode_object(_)
RECURSIVE encode_items(_)
encode_items(kvs) ==
    IF kvs = <<>> THEN <<>>
    ELSE Cat(encode_object(Head(kvs)[1]),
             Cat(encode_object(Head(kvs)[2]), encode_items(Tail(kvs))))

encode_object(field) ==
    CASE field.t = "NoneType" -> <<78>>
      [] field.t = "bool" -> IF field.v = 1 THEN <<84>> ELSE <<70>>
      [] field.t = "str" -> encode_str(field)
      [] field.t = "dict" -> Cat(<<72>>, Cat(encode_items(field.kv), <<90>>))
      [] field.t = "long" -> encode_long(field)
      [] field.t = "int" -> encode_int(field)
      [] field.t \in {"float", "double"} -> encode_float(field)
      [] OTHER -> Fail

\* new_object(cls_name, **fields): an instance of a namedtuple class; fields
\* holds the <<name, value>> pairs in the order of _fields
PyObject(cls_name, fields) ==
    [t |-> "object", v |-> 0, s |-> <<>>, cls |-> cls_name, fields |-> fields]

\* cls_names.index(cls_name)
index(names, cls_name) ==
    (CHOOSE i \in 1..Len(names) :
        names[i] = cls_name /\ \A j \in 1..(i - 1) : names[j] # cls_name) - 1

\* for field_name in field._fields: result += encode_object(field_name)
RECURSIVE encode_field_names(_)
encode_field_names(fields) ==
    IF fields = <<>> THEN <<>>
    ELSE Cat(encode_object(PyStr(Head(fields)[1])), encode_field_names(Tail(fields)))

\* the "object def" part of the namedtuple branch: 'C', the class name, the
\* count of field names, the field names
object_def(field) ==
    Cat(<<67>>,
    Cat(encode_object(PyStr(field.cls)),
    Cat(encode_object(PyInt(Len(field.fields))), encode_field_names(field.fields))))

\* a Python list
PyList(items) == [t |-> "list", v |-> 0, s |-> <<>>, items |-> items]

\* encode_object(field, idx, cls_names) with the list it is given: the
\* result is the bytes and the list as the call leaves it.  The namedtuple
\* branch appends to the list and hands the same list on to the fields;
\* the dict and list branches encode every key, value and element with
\* idx 0 and a list of their own; the other branches do not touch it.
RECURSIVE encode_object_with(_, _, _)
RECURSIVE encode_fields_with(_, _, _)
RECURSIVE encode_pairs(_)
RECURSIVE encode_elements(_)
encode_fields_with(fields, idx, names) ==
    LET then(first) ==
            LET joined(rest) ==
                    [bytes |-> Cat(first.bytes, rest.bytes), cls_names |-> rest.cls_names]
            IN  IF IsFail(first.bytes) THEN first
                ELSE joined(encode_fields_with(Tail(fields), idx, first.cls_names))
    IN  IF fields = <<>> THEN [bytes |-> <<>>, cls_names |-> names]
        ELSE then(encode_object_with(Head(fields)[2], idx, names))

\* for k, v in field.items(): encode_object(k, cls_names=[]) + encode_object(v, cls_names=[])
encode_pairs(kvs) ==
    IF kvs = <<>> THEN <<>>
    ELSE Cat(encode_object_with(Head(kvs)[1], 0, <<>>).bytes,
             Cat(encode_object_with(Head(kvs)[2], 0, <<>>).bytes, encode_pairs(Tail(kvs))))

\* b''.join(encode_object(e, cls_names=[]) for e in field)
encode_elements(es) ==
    IF es = <<>> THEN <<>>
    ELSE Cat(encode_object_with(Head(es), 0, <<>>).bytes, encode_elements(Tail(es)))

encode_object_with(field, idx, names) ==
    LET appended == IF \E i \in 1..Len(names) : names[i] = field.cls THEN names
                    ELSE Append(names, field.cls)
        whole(values) ==
            [bytes |-> Cat(object_def(field),
                       Cat(int_to_bytes(idx + index(appended, field.cls) + 96, 0, FALSE),
                           values.bytes)),
             cls_names |-> values.cls_names]
        length == Len(field.items)
    IN  CASE field.t = "object" -> whole(encode_fields_with(field.fields, idx, appended))
          [] field.t = "dict" ->
                [bytes |-> Cat(<<72>>, Cat(encode_pairs(field.kv), <<90>>)),
                 cls_names |-> names]
          [] field.t = "list" ->
                [bytes |-> IF length < 8
                           THEN Cat(int_to_bytes(length + 120, 0, FALSE),
                                    encode_elements(field.items))
                           ELSE Cat(<<88>>, Cat(encode_object(PyInt(length)),
                                                encode_elements(field.items))),
                 cls_names |-> names]
          [] OTHER -> [bytes |-> encode_object(field), cls_names |-> names]

\* ------------------------------------------------------------------------
\* dubbo/codec/hessian2.py: the decoder of a frame body.  b is the BytesIO
\* of the body, p the number of bytes read so far.  A read returns
\* [st, val, pos]: st is "ok", "eof" (EOFError), "err" (any other exception)
\* or "unmodelled" (a tag family this development does not follow: lists,
\* binary, dates, class definitions and references).

Ok(val, pos) == [st |-> "ok", val |-> val, pos |-> pos]
Raise(st, pos) == [st |-> st, val |-> PyNone, pos |-> pos]

\* Decoder._read(n) on a BytesIO succeeds exactly when n bytes are left
HasBytes(b, p, n) == p + n <= Len(b)
Slice(b, p, n) == SubSeq(b, p + 1, p + n)

UnmodelledTags ==
    (32..47) \cup (52..55) \cup {65, 66, 67, 74, 75, 81, 86, 88} \cup (96..127)

_read_char(b, p) ==
    IF ~HasBytes(b, p, 1) THEN Raise("eof", p)
    ELSE LET int_ch == b[p + 1]
         IN  IF int_ch < 128 THEN Ok(<<int_ch>>, p + 1)
             ELSE IF int_ch \div 32 = 6
                  THEN IF HasBytes(b, p + 1, 1) THEN Ok(Slice(b, p, 2), p + 2)
                       ELSE Raise("eof", p + 1)
                  ELSE IF int_ch \div 16 = 14
                       THEN IF HasBytes(b, p + 1, 2) THEN Ok(Slice(b, p, 3), p + 3)
                            ELSE Raise("eof", p + 1)
                       ELSE Raise("err", p + 1)

\* for _ in range(_chunk_len): _sbuf += self._read_char(); the first half
\* of the chars, then the other half from where the first half ended
RECURSIVE read_chars(_, _, _)
read_chars(b, p, n) ==
    LET more(c) ==
            IF c.st # "ok" THEN c
            ELSE LET joined(r) == IF r.st # "ok" THEN r ELSE Ok(c.val \o r.val, r.pos)
                 IN  joined(read_chars(b, c.pos, n - n \div 2))
    IN  IF n <= 0 THEN Ok(<<>>, p)
        ELSE IF n = 1 THEN _read_char(b, p)
        ELSE more(read_chars(b, p, n \div 2))

\* where a long byte string is cut in two for decoding: before the first
\* byte from the middle on that continues no char; 0 when the next four
\* bytes all do, which no UTF-8 string has
utf8_cut(bs) ==
    LET h == Len(bs) \div 2
        at == {m \in h..(h + 3) : bs[m + 1] \notin 128..191}
    IN  IF at = {} THEN 0 ELSE CHOOSE m \in at : \A k \in at : m <= k

\* bytes.decode(): the code points of UTF-8 bytes that _read_char grouped,
\* Fail for UnicodeDecodeError; a string of more than 8 bytes is decoded
\* in two parts
RECURSIVE utf8_decode(_)
utf8_decode(bs) ==
    IF bs = <<>> THEN <<>>
    ELSE IF Len(bs) > 8
    THEN IF utf8_cut(bs) = 0 THEN Fail
         ELSE Cat(utf8_decode(SubSeq(bs, 1, utf8_cut(bs))),
                  utf8_decode(SubSeq(bs, utf8_cut(bs) + 1, Len(bs))))
    ELSE LET c == bs[1]
             cont(i) == bs[i] \in 128..191
             n == IF c < 128 THEN 1 ELSE IF c \div 32 = 6 THEN 2 ELSE 3
             cp == IF n = 1 THEN c
                   ELSE IF n = 2 THEN (c - 192) * 64 + (bs[2] - 128)
                   ELSE (c - 224) * 4096 + (bs[2] - 128) * 64 + (bs[3] - 128)
             valid == /\ \A i \in 2..n : cont(i)
                      /\ n = 2 => cp >= 128
                      /\ n = 3 => cp >= 2048 /\ cp \notin 55296..57343
         IN  IF ~valid THEN Fail
             ELSE LET rest == utf8_decode(SubSeq(bs, n + 1, Len(bs)))
                  IN  IF rest = Fail THEN Fail ELSE <<cp>> \o rest

\* the three string branches of _read_object: n chars, then _sbuf.decode()
read_str(b, p, n) ==
    LET decoded(r) ==
            LET str(cs) == IF cs = Fail THEN Raise("err", r.pos) ELSE Ok(PyStr(cs), r.pos)
            IN  IF r.st # "ok" THEN r ELSE str(utf8_decode(r.val))
    IN  decoded(read_chars(b, p, n))

\* result[key] = value of a Python dict kept as a sequence of pairs
DictSet(kvs, k, v) ==
    IF \E i \in 1..Len(kvs) : PyEq(kvs[i][1], k)
    THEN [i \in 1..Len(kvs) |-> IF PyEq(kvs[i][1], k) THEN <<kvs[i][1], v>> ELSE kvs[i]]
    ELSE Append(kvs, <<k, v>>)

RECURSIVE _read_object_tag(_, _, _)
RECURSIVE _read_object(_, _)
RECURSIVE _read_map(_, _, _, _)

\* Decoder._read_object(): reads the tag, then dispatches on it
_read_object(b, p) ==
    IF ~HasBytes(b, p, 1) THEN Raise("eof", p) ELSE _read_object_tag(b, p + 1, b[p + 1])

\* Decoder._read_map(code) from its while loop on; code -1 stands for None
_read_map(b, p, code, result) ==
    LET keyval(key) ==
            LET stored(value) ==
                    IF value.st = "eof" THEN Ok(PyDict(result), value.pos)
                    ELSE IF value.st # "ok" THEN value
                    ELSE IF key.val = PyDict(<<>>) THEN Ok(PyDict(result), value.pos)
                    ELSE IF key.val.t = "dict" THEN Raise("err", value.pos)
                    ELSE IF ~HasBytes(b, value.pos, 1) THEN Raise("eof", value.pos)
                    ELSE _read_map(b, value.pos + 1, b[value.pos + 1],
                                   DictSet(result, key.val, value.val))
            IN  IF key.st = "eof" THEN Ok(PyDict(result), key.pos)
                ELSE IF key.st # "ok" THEN key
                ELSE stored(_read_object(b, key.pos))
    IN  IF code = 90 \/ code = 122 THEN Ok(PyDict(result), p)
        ELSE keyval(IF code = -1 THEN _read_object(b, p) ELSE _read_object_tag(b, p, code))

\* Decoder._read_object(tag) after the tag byte
_read_object_tag(b, p, tag) ==
    CASE tag = 78 -> Ok(PyNone, p)
      [] tag = 84 -> Ok(PyBool(TRUE), p)
      [] tag = 70 -> Ok(PyBool(FALSE), p)
      [] tag \in 128..191 -> Ok(PyInt(tag - 144), p)
      [] tag \in 192..207 ->
            IF HasBytes(b, p, 1)
            THEN Ok(PyInt((tag - _BC_INT_BYTE_ZERO) * 256 + b[p + 1]), p + 1)
            ELSE Raise("eof", p)
      [] tag \in 208..215 ->
            IF HasBytes(b, p, 2)
            THEN Ok(PyInt((tag - _BC_INT_SHORT_ZERO) * 65536
                          + bytes_to_int(Slice(b, p, 2), FALSE)), p + 2)
            ELSE Raise("eof", p)
      \* "tag in (b'I', _BC_LONG_INT)": the int 0x49 never equals the bytes b'I'
      [] tag = _BC_LONG_INT ->
            IF HasBytes(b, p, 4) THEN Ok(PyInt(bytes_to_int(Slice(b, p, 4), FALSE)), p + 4)
            ELSE Raise("eof", p)
      [] tag \in 216..239 -> Ok(PyInt(tag - _BC_LONG_ZERO), p)
      [] tag \in 240..255 ->
            IF HasBytes(b, p, 1)
            THEN Ok(PyInt((tag - _BC_LONG_BYTE_ZERO) * 256 + b[p + 1]), p + 1)
            ELSE Raise("eof", p)
      [] tag \in 56..63 ->
            IF HasBytes(b, p, 2)
            THEN Ok(PyInt((tag - _BC_LONG_SHORT_ZERO) * 65536
                          + bytes_to_int(Slice(b, p, 2), FALSE)), p + 2)
            ELSE Raise("eof", p)
      [] tag = 76 ->
            IF HasBytes(b, p, 8) THEN Ok(PyInt(bytes_to_long(Slice(b, p, 8))), p + 8)
            ELSE Raise("eof", p)
      [] tag = _BC_DOUBLE_ZERO -> Ok(PyFloat(0), p)
      [] tag = _BC_DOUBLE_ONE -> Ok(PyFloat(1), p)
      [] tag = _BC_DOUBLE_BYTE ->
            IF HasBytes(b, p, 1) THEN Ok(PyInt(bytes_to_int(Slice(b, p, 1), TRUE)), p + 1)
            ELSE Raise("eof", p)
      [] tag = _BC_DOUBLE_SHORT ->
            IF HasBytes(b, p, 2) THEN Ok(PyInt(bytes_to_int(Slice(b, p, 2), TRUE)), p + 2)
            ELSE Raise("eof", p)
      [] tag = _BC_DOUBLE_MILL ->
            IF HasBytes(b, p, 4) THEN Ok(PyMillis(bytes_to_int(Slice(b, p, 4), TRUE)), p + 4)
            ELSE Raise("eof", p)
      [] tag = 68 ->
            IF HasBytes(b, p, 8) THEN Ok(PyIeee(Slice(b, p, 8)), p + 8)
            ELSE Raise("eof", p)
      [] tag \in {83, 82} ->
            IF HasBytes(b, p, 2)
            THEN read_str(b, p + 2, bytes_to_int(Slice(b, p, 2), FALSE))
            ELSE Raise("eof", p)
      [] tag \in 0..31 -> read_str(b, p, tag)
      [] tag \in 48..51 ->
            IF HasBytes(b, p, 1) THEN read_str(b, p + 1, (tag - 48) * 256 + b[p + 1])
            ELSE Raise("eof", p)
      [] tag \in {85, 87} -> Raise("err", p)
      [] tag = 72 -> _read_map(b, p, -1, <<>>)
      \* _read_map(tag) gets the int 0x4D, which is neither b't' nor b'M' nor
      \* b'Z': _read_keyval calls _read_object(0x4D) again, until RecursionError
      [] tag = 77 -> Raise("err", p)
      [] tag = 90 -> Raise("eof", p)
      [] tag \in UnmodelledTags -> Raise("unmodelled", p)
      [] OTHER -> Raise("err", p)

\* Decoder._read_int(): val is a number
_read_int(b, p) ==
    IF ~HasBytes(b, p, 1) THEN Raise("eof", p)
    ELSE LET tag == b[p + 1]
             q == p + 1
         IN  CASE tag \in {78, 70} -> Ok(0, q)
               [] tag = 84 -> Ok(1, q)
               [] tag \in 128..191 -> Ok(tag - _BC_INT_ZERO, q)
               [] tag \in 192..207 ->
                     IF HasBytes(b, q, 1)
                     THEN Ok((tag - _BC_INT_BYTE_ZERO) * 256 + b[q + 1], q + 1)
                     ELSE Raise("eof", q)
               [] tag \in 208..215 ->
                     IF HasBytes(b, q, 2)
                     THEN Ok((tag - _BC_INT_SHORT_ZERO) * 65536
                             + bytes_to_int(Slice(b, q, 2), FALSE), q + 2)
                     ELSE Raise("eof", q)
               [] tag \in {73, _BC_LONG_INT} ->
                     IF HasBytes(b, q, 4) THEN Ok(bytes_to_int(Slice(b, q, 4), FALSE), q + 4)
                     ELSE Raise("eof", q)
               [] tag \in 216..239 -> Ok(tag - _BC_LONG_ZERO, q)
               [] tag \in 240..255 ->
                     IF HasBytes(b, q, 1)
                     THEN Ok((tag - _BC_LONG_BYTE_ZERO) * 256 + b[q + 1], q + 1)
                     ELSE Raise("eof", q)
               [] tag \in 56..63 ->
                     IF HasBytes(b, q, 2)
                     THEN Ok((tag - _BC_LONG_SHORT_ZERO) * 65536
                             + bytes_to_int(Slice(b, q, 2), FALSE), q + 2)
                     ELSE Raise("eof", q)
               [] tag \in {76, 68} ->
                     IF HasBytes(b, q, 8) THEN Ok(bytes_to_long(Slice(b, q, 8)), q + 8)
                     ELSE Raise("eof", q)
               [] tag = _BC_DOUBLE_ZERO -> Ok(0, q)
               [] tag = _BC_DOUBLE_ONE -> Ok(1, q)
               [] tag = _BC_DOUBLE_BYTE ->
                     IF HasBytes(b, q, 1) THEN Ok(bytes_to_int(Slice(b, q, 1), TRUE), q + 1)
                     ELSE Raise("eof", q)
               [] tag = _BC_DOUBLE_SHORT ->
                     IF HasBytes(b, q, 2) THEN Ok(bytes_to_int(Slice(b, q, 2), TRUE), q + 2)
                     ELSE Raise("eof", q)
               \* int(0.001 * n) truncates toward zero
               [] tag = _BC_DOUBLE_MILL ->
                     IF HasBytes(b, q, 4)
                     THEN LET n == bytes_to_int(Slice(b, q, 4), TRUE)
                          IN  Ok(IF n >= 0 THEN n \div 1000 ELSE 0 - ((0 - n) \div 1000), q + 4)
                     ELSE Raise("eof", q)
               [] OTHER -> Raise("err", q)

\* Decoder._read_bytes(): val is PyNone or a PyBytes
_read_bytes(b, p) ==
    IF ~HasBytes(b, p, 1) THEN Raise("eof", p)
    ELSE LET tag == b[p + 1]
             q == p + 1
             \* prefix + self._read(n), where prefix may have raised
             plus(prefix, n) ==
                 IF IsFail(prefix) THEN Raise("err", q)
                 ELSE IF HasBytes(b, q, n) THEN Ok(PyBytes(prefix \o Slice(b, q, n)), q + n)
                 ELSE Raise("eof", q)
             as_bytes(r) == IF r.st # "ok" THEN r ELSE Ok(PyBytes(r.val), r.pos)
         IN  CASE tag = 78 -> Ok(PyNone, q)
               [] tag = 84 -> Ok(PyBytes(<<116, 114, 117, 101>>), q)
               [] tag = 70 -> Ok(PyBytes(<<102, 97, 108, 115, 101>>), q)
               [] tag \in 128..191 -> plus(int_to_bytes(tag - 144, 0, FALSE), 0)
               [] tag \in 192..207 ->
                     plus(int_to_bytes((tag - _BC_INT_BYTE_ZERO) * 256, 0, FALSE), 1)
               [] tag \in 208..215 -> plus(int_to_bytes(tag - _BC_INT_SHORT_ZERO, 0, FALSE), 2)
               [] tag = _BC_LONG_INT -> plus(<<>>, 4)
               [] tag \in 216..239 -> plus(int_to_bytes(tag - _BC_LONG_ZERO, 0, FALSE), 0)
               [] tag \in 240..255 -> plus(int_to_bytes(tag - _BC_LONG_BYTE_ZERO, 0, FALSE), 1)
               [] tag \in 56..63 -> plus(int_to_bytes(tag - _BC_LONG_SHORT_ZERO, 0, FALSE), 2)
               [] tag = 76 -> plus(<<>>, 8)
               [] tag = _BC_DOUBLE_ZERO -> Ok(PyBytes(<<48, 46, 48>>), q)
               [] tag = _BC_DOUBLE_ONE -> Ok(PyBytes(<<49, 46, 48>>), q)
               [] tag = _BC_DOUBLE_BYTE -> plus(<<>>, 1)
               [] tag = _BC_DOUBLE_SHORT -> plus(<<>>, 2)
               [] tag = _BC_DOUBLE_MILL ->
                     IF HasBytes(b, q, 4) THEN Raise("unmodelled", q + 4) ELSE Raise("eof", q)
               [] tag = 68 -> plus(<<>>, 8)
               [] tag \in {83, 82} ->
                     IF HasBytes(b, q, 2)
                     THEN as_bytes(read_chars(b, q + 2, bytes_to_int(Slice(b, q, 2), FALSE)))
                     ELSE Raise("eof", q)
               [] tag \in 0..31 -> as_bytes(read_chars(b, q, tag))
               [] tag \in 48..51 ->
                     IF HasBytes(b, q, 1)
                     THEN as_bytes(read_chars(b, q + 1, (tag - 48) * 256 + b[q + 1]))
                     ELSE Raise("eof", q)
               [] OTHER -> Raise("err", q)

\* ------------------------------------------------------------------------
\* dubbo/codec/hessian2.py: messages and frames

_DUBBO_MAGIC == <<218, 187>>
_DUBBO_END == <<13, 10, 100, 117, 98, 98, 111, 62>>
_FLAG_REQUEST == 128
_FLAG_RESPONSE == 0
_FLAG_TWOWAY == 64
_FLAG_EVENT == 32
_SERIALIZATION_MASK == 31
_HESSIAN2_SERIALIZATION_ID == 2
DubboResponse_OK == 20
DubboResponse_UnknownError == 90

\* flag & mask for a one-bit mask
HasFlag(flag, mask) == (flag \div mask) % 2 = 1

DubboRequest(id, twoway, dubbo_version, service_name, service_version, method_name, args, attachment) ==
    [k |-> "request", id |-> id, twoway |-> twoway, dubbo_version |-> dubbo_version,
     service_name |-> service_name, service_version |-> service_version,
     method_name |-> method_name, args |-> args, attachment |-> attachment]

DubboResponse(id, status, data, error) ==
    [k |-> "response", id |-> id, status |-> status, data |-> data, error |-> error]

DubboHeartBeatRequest(id, data, twoway) ==
    [k |-> "hb_request", id |-> id, data |-> data, twoway |-> twoway]

DubboHeartBeatResponse(id, data, twoway) ==
    [k |-> "hb_response", id |-> id, data |-> data, twoway |-> twoway]

\* the bytes Decoder.decode returns in telnet mode
TelnetLine(bs) == [k |-> "telnet", line |-> bs]

\* one name of _cls_names_to_desc: the table, else complex_handler
cls_name_to_desc(name) ==
    CASE name = "int" -> <<73>>
      [] name = "long" -> <<74>>
      [] name = "NoneType" -> <<86>>
      [] name = "bool" -> <<90>>
      [] name = "bytes" -> <<66>>
      [] name = "str" -> <<83>>
      [] name = "float" -> <<68>>
      [] name = "double" -> <<76, 100, 111, 117, 98, 108, 101, 59>>
      [] name = "dict" -> <<76, 100, 105, 99, 116, 59>>

\* _cls_names_to_desc([type(arg).__name__ for arg in self.args])
RECURSIVE _cls_names_to_desc(_)
_cls_names_to_desc(args) ==
    IF args = <<>> THEN <<>>
    ELSE cls_name_to_desc(Head(args).t) \o _cls_names_to_desc(Tail(args))

\* the character classes of _DESC_PTN
DescPrimitive == {86, 90, 66, 67, 68, 70, 73, 74, 83}
DescIdentStart == {95, 36} \cup (97..122) \cup (65..90)
DescIdentPart == DescIdentStart \cup (48..57) \cup {47}

\* the end of the maximal run of DescIdentPart characters from i on
RECURSIVE DescRunEnd(_, _)
DescRunEnd(d, i) ==
    IF i <= Len(d) /\ d[i] \in DescIdentPart THEN DescRunEnd(d, i + 1) ELSE i

\* where "L[_$a-zA-Z][_$a-zA-Z0-9/]*;" matching at i ends, 0 for no match
DescClassEnd(d, i) ==
    IF i + 1 <= Len(d) /\ d[i] = 76 /\ d[i + 1] \in DescIdentStart
    THEN LET j == DescRunEnd(d, i + 2)
         IN  IF j <= Len(d) /\ d[j] = 59 THEN j ELSE 0
    ELSE 0

\* the end of the run of '[' from i on
RECURSIVE DescBracketEnd(_, _)
DescBracketEnd(d, i) ==
    IF i <= Len(d) /\ d[i] = 91 THEN DescBracketEnd(d, i + 1) ELSE i

\* len(_desc_to_cls_names(desc)): the matches _DESC_PTN.findall finds from i on
RECURSIVE _desc_to_cls_names(_, _)
_desc_to_cls_names(d, i) ==
    IF i > Len(d) THEN 0
    ELSE IF d[i] \in DescPrimitive THEN 1 + _desc_to_cls_names(d, i + 1)
    ELSE IF DescClassEnd(d, i) # 0 THEN 1 + _desc_to_cls_names(d, DescClassEnd(d, i) + 1)
    ELSE IF d[i] = 91
         THEN LET j == DescBracketEnd(d, i)
              IN  IF j <= Len(d) /\ d[j] \in DescPrimitive
                  THEN 1 + _desc_to_cls_names(d, j + 1)
                  ELSE IF DescClassEnd(d, j) # 0
                       THEN 1 + _desc_to_cls_names(d, DescClassEnd(d, j) + 1)
                       ELSE _desc_to_cls_names(d, i + 1)
         ELSE _desc_to_cls_names(d, i + 1)

\* the join of _get_args from argument idx on, cls_names being names
RECURSIVE encode_args_from(_, _, _)
encode_args_from(args, idx, names) ==
    LET rest(first) ==
            IF IsFail(first.bytes) THEN first.bytes
            ELSE Cat(first.bytes, encode_args_from(Tail(args), idx + 1, first.cls_names))
    IN  IF args = <<>> THEN <<>> ELSE rest(encode_object_with(Head(args), idx, names))

\* DubboRequest._get_args: cls_names = [], then
\* encode_object(arg, idx, cls_names) for idx, arg in enumerate(self.args)
_get_args(args) == encode_args_from(args, 0, <<>>)

\* DubboRequest._get_body
Request_get_body(m) ==
    Cat(encode_object(m.dubbo_version),
    Cat(encode_object(m.service_name),
    Cat(encode_object(m.service_version),
    Cat(encode_object(m.method_name),
    Cat(encode_object(PyStr(_cls_names_to_desc(m.args))),
    Cat(_get_args(m.args),
        encode_object(m.attachment)))))))

\* DubboRequest._encode_header
Request_encode_header(m) ==
    Cat(_DUBBO_MAGIC,
    Cat(int_to_bytes(_FLAG_REQUEST + _HESSIAN2_SERIALIZATION_ID
                     + (IF m.twoway THEN _FLAG_TWOWAY ELSE 0), 0, FALSE),
    Cat(<<0>>, long_to_bytes(m.id))))

\* a _get_flag that leaves the two-way bit out
HeartBeat_get_flag_without_twoway(m) ==
    (IF m.k = "hb_request" THEN _FLAG_REQUEST ELSE _FLAG_RESPONSE)
    + _FLAG_EVENT + _HESSIAN2_SERIALIZATION_ID

\* _HeartBeat._get_flag of the two subclasses
HeartBeat_get_flag(m) ==
    (IF m.k = "hb_request" THEN _FLAG_REQUEST ELSE _FLAG_RESPONSE)
    + _FLAG_EVENT + _HESSIAN2_SERIALIZATION_ID + (IF m.twoway THEN _FLAG_TWOWAY ELSE 0)

\* _HeartBeat._encode_header
HeartBeat_encode_header(m) ==
    Cat(_DUBBO_MAGIC,
    Cat(int_to_bytes(HeartBeat_get_flag(m), 0, FALSE),
    Cat(<<0>>, long_to_bytes(m.id))))

\* DubboResponse._get_body
Response_get_body(m) ==
    IF m.error = PyNone
    THEN Cat(IF m.data = PyNone THEN int_to_bytes(2 + 144, 0, FALSE)
                                ELSE int_to_bytes(1 + 144, 0, FALSE),
             encode_object(m.data))
    ELSE encode_object(m.error)

\* DubboResponse._encode_header
Response_encode_header(m) ==
    Cat(_DUBBO_MAGIC,
    Cat(int_to_bytes(_FLAG_RESPONSE + _HESSIAN2_SERIALIZATION_ID, 0, FALSE),
    Cat(int_to_bytes(m.status, 0, FALSE), long_to_bytes(m.id))))

\* _encode_body of the three classes: 4 bytes of len(body), then the body
encode_body(body) ==
    IF IsFail(body) THEN body ELSE Cat(int_to_bytes(Len(body), 4, FALSE), body)

\* encode() of DubboRequest, DubboResponse and the heartbeats: the frame, or
\* Fail for the exception raised
encode(m) ==
    CASE m.k = "request" -> Cat(Request_encode_header(m), encode_body(Request_get_body(m)))
      [] m.k = "response" -> Cat(Response_encode_header(m), encode_body(Response_get_body(m)))
      [] m.k \in {"hb_request", "hb_response"} ->
            Cat(HeartBeat_encode_header(m), encode_body(encode_object(m.data)))

\* for _ in arg_types: args.append(self._read_object()); val is the list
RECURSIVE read_args(_, _, _)
read_args(b, p, n) ==
    LET more(a) ==
            IF a.st # "ok" THEN a
            ELSE LET joined(r) == IF r.st # "ok" THEN r ELSE Ok(<<a.val>> \o r.val, r.pos)
                 IN  joined(read_args(b, a.pos, n - 1))
    IN  IF n = 0 THEN Ok(<<>>, p) ELSE more(_read_object(b, p))

\* attachment.get('generic') in ('true', True)
IsGeneric(attachment) ==
    \E i \in 1..Len(attachment.kv) :
        /\ attachment.kv[i][1] = PyStr(<<103, 101, 110, 101, 114, 105, 99>>)
        /\ \/ attachment.kv[i][2] = PyStr(<<116, 114, 117, 101>>)
           \/ PyEq(attachment.kv[i][2], PyBool(TRUE))

\* _decode_request_body from the attachment on
request_with_attachment(id_, twoway, fields, args, attachment) ==
    IF attachment.st # "ok" THEN attachment
    ELSE IF attachment.val.t # "dict" THEN Raise("err", attachment.pos)
    ELSE IF IsGeneric(attachment.val) THEN Raise("unmodelled", attachment.pos)
    ELSE Ok(DubboRequest(id_, twoway, fields.val[1], fields.val[2], fields.val[3],
                         fields.val[4], args.val, attachment.val),
            attachment.pos)

\* _decode_request_body from "attachment = self._read_object()" on
request_with_args(b, id_, twoway, fields, args) ==
    IF args.st # "ok" THEN args
    ELSE request_with_attachment(id_, twoway, fields, args, _read_object(b, args.pos))

\* _decode_request_body from "arg_types = _desc_to_cls_names(desc.decode())"
\* on; desc.decode() raises on None and on bytes that are no UTF-8
request_with_fields(b, id_, twoway, fields) ==
    IF fields.st # "ok" THEN fields
    ELSE IF fields.val[5] = PyNone THEN Raise("err", fields.pos)
    ELSE IF utf8_decode(fields.val[5].s) = Fail THEN Raise("err", fields.pos)
    ELSE request_with_args(b, id_, twoway, fields,
            read_args(b, fields.pos, _desc_to_cls_names(utf8_decode(fields.val[5].s), 1)))

\* n calls of self._read_bytes() in a row; val is the list of their results
RECURSIVE read_fields(_, _, _)
read_fields(b, p, n) ==
    LET more(a) ==
            IF a.st # "ok" THEN a
            ELSE LET joined(r) == IF r.st # "ok" THEN r ELSE Ok(<<a.val>> \o r.val, r.pos)
                 IN  joined(read_fields(b, a.pos, n - 1))
    IN  IF n = 0 THEN Ok(<<>>, p) ELSE more(_read_bytes(b, p))

\* ------------------------------------------------------------------------
\* dubbo/codec/hessian2.py: the decoder with its table of class definitions.
\* refs is self._refs, one [type, fields, args] per 'C' block read; a read
\* returns [st, val, pos, refs].

Read(r, refs) == [st |-> r.st, val |-> r.val, pos |-> r.pos, refs |-> refs]

\* Decoder._read_object_def: the type, the count, the field names, then
\* self._refs.append({'type': type_, 'fields': field_names})
_read_object_def(b, p, refs) ==
    LET named(type_, len_, field_names) ==
            IF field_names.st # "ok" THEN Read(field_names, refs)
            ELSE Read(Ok(PyNone, field_names.pos),
                      Append(refs, [type |-> type_.val, fields |-> field_names.val,
                                    args |-> <<>>]))
        counted(type_, len_) ==
            IF len_.st # "ok" THEN Read(len_, refs)
            ELSE named(type_, len_,
                       read_fields(b, len_.pos, IF len_.val < 0 THEN 0 ELSE len_.val))
        typed(type_) ==
            IF type_.st # "ok" THEN Read(type_, refs)
            ELSE counted(type_, _read_int(b, type_.pos))
    IN  typed(_read_bytes(b, p))

\* dict(zip(map(lambda f: f.decode(), ref['fields']), ref['args'])), for
\* field names that differ from each other
RECURSIVE zip_fields(_, _)
zip_fields(fields, args) ==
    IF fields = <<>> \/ args = <<>> THEN <<>>
    ELSE <<<<utf8_decode(Head(fields).s), Head(args)>>>>
             \o zip_fields(Tail(fields), Tail(args))

\* _cls_factory(ref): new_object(ref['type'].decode(), **kwargs); None has
\* no decode()
_cls_factory(ref, p, refs) ==
    IF \/ ref.type.t # "bytes"
       \/ \E i \in 1..Len(ref.fields) : ref.fields[i].t # "bytes"
       \/ utf8_decode(ref.type.s) = Fail
       \/ \E i \in 1..Len(ref.fields) : utf8_decode(ref.fields[i].s) = Fail
    THEN Read(Raise("err", p), refs)
    ELSE Read(Ok(PyObject(utf8_decode(ref.type.s), zip_fields(ref.fields, ref.args)), p),
              refs)

RECURSIVE _read_object_in(_, _, _)
RECURSIVE _read_object_tag_in(_, _, _, _)
RECURSIVE read_instance(_, _, _, _, _)
RECURSIVE _read_list(_, _, _, _)
RECURSIVE _read_map_in(_, _, _, _, _)

\* the branch of tags 0x60..0x6f after "ref['args'] = []": n more times
\* ref['args'].append(self._read_object()), ref being the dict at idx of
\* the table as it is then, and at last _cls_factory(ref)
read_instance(b, p, refs, idx, n) ==
    LET appended(r) ==
            IF r.st # "ok" THEN r
            ELSE read_instance(b, r.pos,
                               [r.refs EXCEPT ![idx + 1].args = Append(@, r.val)],
                               idx, n - 1)
    IN  IF n = 0 THEN _cls_factory(refs[idx + 1], p, refs)
        ELSE appended(_read_object_in(b, p, refs))

\* Decoder._read_list(length): [self._read_object() for _ in range(length)]
_read_list(b, p, refs, length) ==
    LET more(a) ==
            IF a.st # "ok" THEN a
            ELSE LET joined(r) ==
                         IF r.st # "ok" THEN r
                         ELSE Read(Ok(PyList(<<a.val>> \o r.val.items), r.pos), r.refs)
                 IN  joined(_read_list(b, a.pos, a.refs, length - 1))
    IN  IF length <= 0 THEN Read(Ok(PyList(<<>>), p), refs)
        ELSE more(_read_object_in(b, p, refs))

\* Decoder._read_map(code) from its while loop on, the keys and values read
\* with the table; code -1 stands for None.  A dict or a list is no key.
_read_map_in(b, p, refs, code, result) ==
    LET keyval(key) ==
            LET stored(value) ==
                    IF value.st = "eof"
                    THEN Read(Ok(PyDict(result), value.pos), value.refs)
                    ELSE IF value.st # "ok" THEN value
                    ELSE IF key.val = PyDict(<<>>)
                         THEN Read(Ok(PyDict(result), value.pos), value.refs)
                    ELSE IF key.val.t \in {"dict", "list"}
                         THEN Read(Raise("err", value.pos), value.refs)
                    ELSE IF ~HasBytes(b, value.pos, 1)
                         THEN Read(Raise("eof", value.pos), value.refs)
                    ELSE _read_map_in(b, value.pos + 1, value.refs, b[value.pos + 1],
                                      DictSet(result, key.val, value.val))
            IN  IF key.st = "eof" THEN Read(Ok(PyDict(result), key.pos), key.refs)
                ELSE IF key.st # "ok" THEN key
                ELSE stored(_read_object_in(b, key.pos, key.refs))
    IN  IF code = 90 \/ code = 122 THEN Read(Ok(PyDict(result), p), refs)
        ELSE keyval(IF code = -1 THEN _read_object_in(b, p, refs)
                    ELSE _read_object_tag_in(b, p, refs, code))

\* Decoder._read_object(tag) after the tag byte, with the table: the
\* branches of 'C', of the instance tags 0x60..0x6f, of the untyped lists
\* and of 'H'; every other tag as in _read_object_tag
_read_object_tag_in(b, p, refs, tag) ==
    LET defined(d) == IF d.st # "ok" THEN d ELSE _read_object_in(b, d.pos, d.refs)
        listed(length) ==
            IF length.st # "ok" THEN Read(length, refs)
            ELSE _read_list(b, length.pos, refs, length.val)
    IN  CASE tag = 67 -> defined(_read_object_def(b, p, refs))
          [] tag \in 96..111 ->
                IF tag - 96 >= Len(refs) THEN Read(Raise("err", p), refs)
                ELSE read_instance(b, p, [refs EXCEPT ![tag - 95].args = <<>>],
                                   tag - 96, Len(refs[tag - 95].fields))
          [] tag \in 120..127 -> _read_list(b, p, refs, tag - 120)
          [] tag = 88 -> listed(_read_int(b, p))
          [] tag = 72 -> _read_map_in(b, p, refs, -1, <<>>)
          [] OTHER -> Read(_read_object_tag(b, p, tag), refs)

\* Decoder._read_object() with the table: reads the tag, then dispatches
_read_object_in(b, p, refs) ==
    IF ~HasBytes(b, p, 1) THEN Read(Raise("eof", p), refs)
    ELSE _read_object_tag_in(b, p + 1, refs, b[p + 1])

\* for _ in arg_types: args.append(self._read_object()), with the table;
\* val is the list of the arguments
RECURSIVE read_args_in(_, _, _, _)
read_args_in(b, p, refs, n) ==
    LET more(a) ==
            IF a.st # "ok" THEN a
            ELSE LET joined(r) ==
                         IF r.st # "ok" THEN r
                         ELSE Read(Ok(<<a.val>> \o r.val, r.pos), r.refs)
                 IN  joined(read_args_in(b, a.pos, a.refs, n - 1))
    IN  IF n = 0 THEN Read(Ok(<<>>, p), refs) ELSE more(_read_object_in(b, p, refs))

\* Decoder._decode_request_body; val is the DubboRequest.  The first five
\* fields are dubbo_version, service_name, service_version, method_name, desc.
_decode_request_body(b, id_, twoway) ==
    request_with_fields(b, id_, twoway, read_fields(b, 0, 5))

\* Decoder._decode_response_body; val is the DubboResponse
_decode_response_body(b, id_, status) ==
    LET with_data(data) ==
            IF data.st # "ok" THEN data
            ELSE Ok(DubboResponse(id_, status, data.val, PyNone), data.pos)
        with_status_code(status_code) ==
            IF status_code.st # "ok" THEN status_code
            ELSE IF status_code.val \in {0, 1}
                 THEN with_data(_read_object(b, status_code.pos))
                 ELSE Ok(DubboResponse(id_, status, PyNone, PyNone), status_code.pos)
        with_error(error) ==
            IF error.st # "ok" THEN error
            ELSE Ok(DubboResponse(id_, status, PyNone, error.val), error.pos)
    IN  IF status = DubboResponse_OK
        THEN with_status_code(_read_int(b, 0))
        ELSE with_error(_read_object(b, 0))

\* Decoder._decode_heartbeat_request and _decode_heartbeat_response (a
\* decoded heartbeat response has the default twoway=False)
_decode_heartbeat(b, id_, request, twoway) ==
    LET with_data(data) ==
            IF data.st # "ok" THEN data
            ELSE Ok(IF request THEN DubboHeartBeatRequest(id_, data.val, twoway)
                               ELSE DubboHeartBeatResponse(id_, data.val, FALSE), data.pos)
    IN  with_data(_read_object(b, 0))

\* the try block of Decoder.decode: the dispatch on the flag to the parser
\* of the body; the result is that parser's [st, val, pos]
parse_body(header, body) ==
    LET flag == header[3]
        twoway == HasFlag(flag, _FLAG_TWOWAY)
        status == header[4]
        invoke_id == bytes_to_long(SubSeq(header, 5, 12))
    IN  IF HasFlag(flag, _FLAG_EVENT)
        THEN _decode_heartbeat(body, invoke_id, HasFlag(flag, _FLAG_REQUEST), twoway)
        ELSE IF HasFlag(flag, _FLAG_REQUEST)
             THEN _decode_request_body(body, invoke_id, twoway)
             ELSE _decode_response_body(body, invoke_id, status)

\* Decoder.decode from "flag = header[2]" on: header is what the two header
\* reads returned, body what self._read(body_length) returned.  The result
\* is [st, val]: the message, or the exception that leaves decode().
decode_frame(header, body) ==
    LET returned(r) == [st |-> r.st, val |-> r.val]
    IN  returned(parse_body(header, body))

\* body_length = bytes_to_int(header[12:16])
body_length(header) == bytes_to_int(SubSeq(header, 13, 16), FALSE)

\* Decoder(BytesIO(frame)).decode() of one whole frame, as a receiver gets
\* it whose every recv returns exactly the bytes asked for
decode(frame) ==
    IF Len(frame) < 16 \/ Len(frame) < 16 + body_length(frame)
    THEN [st |-> "eof", val |-> PyNone]
    ELSE decode_frame(SubSeq(frame, 1, 16), SubSeq(frame, 17, 16 + body_length(frame)))

\* ------------------------------------------------------------------------
\* State.  Three groups of variables: a Decoder reading a byte stream
\* (Decoder.decode over socket.recv), one end-to-end call (client encode,
\* server decode, handler, server encode, client decode), and one
\* connection between a DubboClient and a _DubboRequestHandler.

\* items .. results: the Decoder over a stream
VARIABLES items,  \* what the peer has written so far: messages and raw replies
    stream,       \* the bytes of items, in order
    pos,          \* how many bytes of stream recv has handed out
    peer_closed,  \* the peer has closed its end after the last item
    d_pc,         \* where Decoder.decode stands
    header,       \* decode's local header
    received,     \* _read's / _read_until_prompt's local received
    results,      \* one entry per finished decode() call
    \* --- one end-to-end call
    call,
    \* --- one connection
    _request_id,  \* DubboClient._request_id: the next value of count(1)
    _msg_queue,   \* DubboClient._msg_queue
    caller,       \* the threads calling the client's public methods
    c_recv,       \* DubboClient._recv_loop: "run", "stopped", "dead", "desync"
    c_beats,      \* DubboClient._heartbeat_loop: [pc, id, n]
    c2s,          \* bytes written to the client's socket, not yet read
    s2c,          \* bytes written to the server's socket, not yet read
    sending,      \* per thread: the frame whose sendall has written only a part
    splits,       \* how many sendall calls were cut in two so far
    cmds,         \* how many telnet commands were started so far
    s_pc,         \* _DubboRequestHandler.handle
    s_out,        \* the frame handle is about to sendall
    s_request_id, \* _DubboRequestHandler._request_id
    s_beats,      \* _DubboRequestHandler._heartbeat_loop: [pc, n]
    s_open,       \* the server's socket is open
    s_log,        \* what handle has done: invoke / drop / write events
    \* --- calls of the codec's functions
    unit,         \* the last call: what was called, on what, and what came back
    cls_names,    \* the list that is encode_object's default argument cls_names
    \* --- DubboService.register
    _services,    \* DubboService._services: per service the methods added
    _pid_gen,     \* server._pid_gen: the next value of count(1)
    ensured       \* the paths given to KazooClient.ensure_path, in order

streamVars == <<items, stream, pos, peer_closed, d_pc, header, received, results>>
callVars == <<call>>
connVars == <<_request_id, _msg_queue, caller, c_recv, c_beats, c2s, s2c, sending,
              splits, cmds, s_pc, s_out, s_request_id, s_beats, s_open, s_log>>
codecVars == <<unit, cls_names>>
registryVars == <<_services, _pid_gen, ensured>>
vars == <<streamVars, callVars, connVars, codecVars, registryVars>>

\* ------------------------------------------------------------------------
\* Decoder.decode over a socket: every recv is one step

\* how many items the peer writes
MaxItems == 2

\* a frame of a peer that serialises with another serialization id
Foreign(m, proto) == [k |-> "foreign", m |-> m, proto |-> proto]

\* what a peer writes: frames made by encode(), telnet replies, and a frame
\* whose flag names serialization 3
PeerItems ==
    << DubboHeartBeatRequest(1, PyNone, TRUE),
       DubboHeartBeatResponse(1, PyNone, FALSE),
       DubboResponse(2, DubboResponse_OK, PyInt(16), PyNone),
       DubboResponse(3, 40, PyNone, PyStr(<<98, 111, 111, 109>>)),
       DubboResponse(4, 0, PyNone, PyStr(<<98, 111, 111, 109>>)),
       DubboResponse(5, 256, PyNone, PyStr(<<98, 111, 111, 109>>)),
       DubboRequest(6, TRUE, PyStr(<<50, 46, 53, 46, 51>>), PyStr(<<99, 97, 108, 99>>),
                    PyStr(<<49, 46, 48>>), PyStr(<<101, 120, 112>>), <<PyInt(4)>>,
                    PyDict(<<>>)),
       TelnetLine(<<111, 107>> \o _DUBBO_END),
       TelnetLine(_DUBBO_END),
       TelnetLine(<<97>> \o _DUBBO_END),
       Foreign(DubboResponse(7, DubboResponse_OK, PyInt(16), PyNone), 3) >>

\* the bytes an item puts on the wire
wire_bytes(item) ==
    CASE item.k = "telnet" -> item.line
      [] item.k = "foreign" ->
            LET f == encode(item.m)
            IN  [f EXCEPT ![3] = (f[3] - (f[3] % (_SERIALIZATION_MASK + 1))) + item.proto]
      [] OTHER -> encode(item)

Min(a, b) == IF a < b THEN a ELSE b

\* bytes the socket holds for the next recv
Avail == Len(stream) - pos

\* socket.recv(length) returns between 1 and length of the bytes there
recv_sizes(length) == 1 .. Min(length, Avail)

\* received.endswith(suffix)
endswith(bs, suffix) ==
    /\ Len(bs) >= Len(suffix)
    /\ SubSeq(bs, Len(bs) - Len(suffix) + 1, Len(bs)) = suffix

\* the record of one finished decode() call
Finished(kind, st, val, hdr, consumed) ==
    [kind |-> kind, st |-> st, val |-> val, consumed |-> consumed,
     flag |-> IF kind = "frame" THEN hdr[3] ELSE 0,
     body_length |-> IF kind = "frame" THEN body_length(hdr) ELSE 0]

\* decode() from "flag = header[2]" on, once _read(body_length) has returned:
\* the loop that called decode() goes on after a message and ends on an
\* exception
decode_returns(r, hdr, consumed) ==
    /\ results' = Append(results, Finished("frame", r.st, r.val, hdr, consumed))
    /\ d_pc' = IF r.st = "ok" THEN "magic" ELSE "stopped"
    /\ header' = <<>>
    /\ received' = <<>>

\* the peer writes one more item
PeerSend ==
    /\ ~peer_closed
    /\ Len(items) < MaxItems
    /\ \E i \in 1..Len(PeerItems) :
        /\ items' = Append(items, PeerItems[i])
        /\ stream' = stream \o wire_bytes(PeerItems[i])
    /\ UNCHANGED <<pos, peer_closed, d_pc, header, received, results, callVars, connVars, codecVars, registryVars>>

\* the peer closes its end
PeerClose ==
    /\ ~peer_closed
    /\ peer_closed' = TRUE
    /\ UNCHANGED <<items, stream, pos, d_pc, header, received, results, callVars, connVars, codecVars, registryVars>>

\* one recv of header = self._read(2), then the magic test
ReadMagic ==
    /\ d_pc = "magic"
    /\ \E n \in recv_sizes(2) :
        LET rec == received \o SubSeq(stream, pos + 1, pos + n)
        IN  /\ pos' = pos + n
            /\ IF Len(rec) < 2
               THEN /\ received' = rec
                    /\ UNCHANGED <<d_pc, header>>
               ELSE /\ header' = rec
                    /\ received' = <<>>
                    /\ d_pc' = IF SubSeq(rec, 1, 2) # _DUBBO_MAGIC THEN "prompt" ELSE "header"
    /\ UNCHANGED <<items, stream, peer_closed, results, callVars, connVars, codecVars, registryVars>>

\* one recv of header += self._read(14); a frame with body length 0 is
\* decoded at once, since _read(0) reads nothing
ReadHeader ==
    /\ d_pc = "header"
    /\ \E n \in recv_sizes(14) :
        LET rec == received \o SubSeq(stream, pos + 1, pos + n)
            hdr == header \o rec
        IN  /\ pos' = pos + n
            /\ IF Len(rec) < 14
               THEN /\ received' = rec
                    /\ UNCHANGED <<d_pc, header, results>>
               ELSE IF body_length(hdr) = 0
                    THEN decode_returns(decode_frame(hdr, <<>>), hdr, pos + n)
                    ELSE /\ header' = hdr
                         /\ received' = <<>>
                         /\ d_pc' = "body"
                         /\ UNCHANGED results
    /\ UNCHANGED <<items, stream, peer_closed, callVars, connVars, codecVars, registryVars>>

\* one recv of self._read(body_length), then the body's decoding
ReadBody ==
    /\ d_pc = "body"
    /\ \E n \in recv_sizes(body_length(header)) :
        LET rec == received \o SubSeq(stream, pos + 1, pos + n)
        IN  /\ pos' = pos + n
            /\ IF Len(rec) < body_length(header)
               THEN /\ received' = rec
                    /\ UNCHANGED <<d_pc, header, results>>
               ELSE decode_returns(decode_frame(header, rec), header, pos + n)
    /\ UNCHANGED <<items, stream, peer_closed, callVars, connVars, codecVars, registryVars>>

\* one turn of _read_until_prompt's loop: self._read(1) is one recv(1)
ReadPrompt ==
    /\ d_pc = "prompt"
    /\ Avail > 0
    /\ LET rec == received \o SubSeq(stream, pos + 1, pos + 1)
       IN  /\ pos' = pos + 1
           /\ IF endswith(rec, _DUBBO_END)
              THEN /\ results' = Append(results, Finished("telnet", "ok",
                                        TelnetLine(header \o rec), header, pos + 1))
                   /\ d_pc' = "magic"
                   /\ header' = <<>>
                   /\ received' = <<>>
              ELSE /\ received' = rec
                   /\ UNCHANGED <<d_pc, header, results>>
    /\ UNCHANGED <<items, stream, peer_closed, callVars, connVars, codecVars, registryVars>>

\* recv returns b'' on the closed, drained socket: _read raises EOFError
ReadEof ==
    /\ d_pc \in {"magic", "header", "body", "prompt"}
    /\ Avail = 0
    /\ peer_closed
    /\ results' = Append(results, Finished("eof", "eof", PyNone, header, pos))
    /\ d_pc' = "stopped"
    /\ header' = <<>>
    /\ received' = <<>>
    /\ UNCHANGED <<items, stream, pos, peer_closed, callVars, connVars, codecVars, registryVars>>

\* ------------------------------------------------------------------------
\* dubbo/server.py: the handler table and the call of a handler

\* what a handler call ends with: a return value or a raised exception
Return(val) == [o |-> "return", val |-> val, status |-> 0, message |-> PyNone]
\* raise DubboError(status, message)
RaiseDubboError(status, message) ==
    [o |-> "DubboError", val |-> PyNone, status |-> status, message |-> PyStr(message)]
RaiseEOFError == [o |-> "EOFError", val |-> PyNone, status |-> 0, message |-> PyNone]
\* any other exception err; message is str(err)
RaiseException(message) ==
    [o |-> "Exception", val |-> PyNone, status |-> 0, message |-> PyStr(message)]

\* the names used on the modelled connection
calc == <<99, 97, 108, 99>>
multi2 == <<109, 117, 108, 116, 105, 50>>
work == <<119, 111, 114, 107>>
void == <<118, 111, 105, 100>>
empty_ok == <<101, 109, 112, 116, 121, 95, 111, 107>>
nosuch == <<110, 111, 115, 117, 99, 104>>
request_id == <<114, 101, 113, 117, 101, 115, 116, 95, 105, 100>>
missing == <<109, 105, 115, 115, 105, 110, 103>>

\* handler_map after add_method('calc', m, h) for: the test's
\* _multi_2_handler, a callable "work" of the application, and the strings
\* 'void', 'empty_ok', 'nosuch' and 'request_id'.  "absent" is the None
\* that handler_map.get(service, {}).get(method) returns.
handler_map(service, method) ==
    IF service # calc THEN [kind |-> "absent", name |-> ""]
    ELSE CASE method = multi2 -> [kind |-> "callable", name |-> "_multi_2_handler"]
           [] method = work -> [kind |-> "callable", name |-> "work"]
           [] method = void -> [kind |-> "str", name |-> "void"]
           [] method = empty_ok -> [kind |-> "str", name |-> "empty_ok"]
           [] method = nosuch -> [kind |-> "str", name |-> "nosuch"]
           [] method = request_id -> [kind |-> "str", name |-> "request_id"]
           [] OTHER -> [kind |-> "absent", name |-> ""]

\* the builtin handlers of _DubboRequestHandler: _void, _empty_ok
Builtins == {"void", "empty_ok"}

\* the names n for which hasattr(self, '_' + n) holds on a
\* _DubboRequestHandler: _request_id, _heartbeat_loop, _void, _empty_ok
HandlerAttrs == {"request_id", "heartbeat_loop", "void", "empty_ok"}

\* handle's lookup: the handler of msg after the isinstance(handler, str)
\* branch; "absent" is what "if not handler" takes
lookup(msg) ==
    LET handler == handler_map(utf8_decode(msg.service_name.s), utf8_decode(msg.method_name.s))
    IN  IF handler.kind = "str"
        THEN IF handler.name \in HandlerAttrs
             THEN [kind |-> "attr", name |-> handler.name]
             ELSE [kind |-> "absent", name |-> ""]
        ELSE handler

\* str(err) of the TypeError that calling self._request_id raises
NotCallable ==
    <<39, 105, 116, 101, 114, 116, 111, 111, 108, 115, 46, 99, 111, 117, 110, 116, 39, 32,
      111, 98, 106, 101, 99, 116, 32, 105, 115, 32, 110, 111, 116, 32, 99, 97, 108, 108,
      97, 98, 108, 101>>

\* str(err) of the TypeError of None * 2
NoneTimesInt ==
    <<117, 110, 115, 117, 112, 112, 111, 114, 116, 101, 100, 32, 111, 112, 101, 114, 97,
      110, 100, 32, 116, 121, 112, 101, 40, 115, 41, 32, 102, 111, 114, 32, 42, 58, 32,
      39, 78, 111, 110, 101, 84, 121, 112, 101, 39, 32, 97, 110, 100, 32, 39, 105, 110,
      116, 39>>

\* str(err) of the TypeError of {} * 2
DictTimesInt ==
    <<117, 110, 115, 117, 112, 112, 111, 114, 116, 101, 100, 32, 111, 112, 101, 114, 97,
      110, 100, 32, 116, 121, 112, 101, 40, 115, 41, 32, 102, 111, 114, 32, 42, 58, 32,
      39, 100, 105, 99, 116, 39, 32, 97, 110, 100, 32, 39, 105, 110, 116, 39>>

\* the test's _multi_2_handler(num): num * 2, on one decoded argument
_multi_2_handler(num) ==
    CASE num.t \in {"int", "bool", "long"} -> Return(PyInt(num.v * 2))
      [] num.t \in {"float", "double"} ->
            Return(PyMillis(2 * (num.v * 1000 + (IF num.s = <<>> THEN 0 ELSE num.s[1]))))
      [] num.t = "str" -> Return(PyStr(num.s \o num.s))
      [] num.t = "bytes" -> Return(PyBytes(num.s \o num.s))
      [] num.t = "NoneType" -> RaiseException(NoneTimesInt)
      [] num.t = "dict" -> RaiseException(DictTimesInt)

\* what the application's handler "work" may do: return a value, raise
\* DubboError, raise another exception, or raise EOFError
WorkOutcomes ==
    { Return(PyInt(16)),
      Return(PyFloat(128)),
      RaiseDubboError(40, <<100, 105, 118, 105, 100, 101, 32, 98, 121, 32, 122, 101, 114, 111>>),
      RaiseException(<<98, 111, 111, 109>>),
      RaiseEOFError }

\* handler(*msg.args): the outcomes the call may have
invoke(handler, args) ==
    CASE handler.kind = "attr" /\ handler.name = "void" -> {Return(PyNone)}
      [] handler.kind = "attr" /\ handler.name = "empty_ok" -> {Return(PyDict(<<>>))}
      [] handler.kind = "attr" /\ handler.name = "request_id" -> {RaiseException(NotCallable)}
      [] handler.kind = "callable" /\ handler.name = "_multi_2_handler" ->
            {_multi_2_handler(args[1])}
      [] handler.kind = "callable" /\ handler.name = "work" -> WorkOutcomes

\* the DubboResponse handle builds from the outcome of the handler call
make_response(msg, out) ==
    CASE out.o = "return" -> DubboResponse(msg.id, DubboResponse_OK, out.val, PyNone)
      [] out.o = "DubboError" -> DubboResponse(msg.id, out.status, PyNone, out.message)
      [] out.o = "Exception" ->
            DubboResponse(msg.id, DubboResponse_UnknownError, PyNone, out.message)

\* ------------------------------------------------------------------------
\* One end-to-end call on an idle connection: the client's
\* send_request_and_return_response, the server's handle, the client's
\* _recv_loop, with a transport whose every recv returns what was asked for

\* how many arguments a call has at most
MaxArgs == 2

\* no message
NoMsg == [k |-> "none"]

\* the primitive argument values: null, booleans, ints, longs, doubles, strings
Primitives ==
    { PyNone, PyBool(TRUE), PyBool(FALSE),
      PyInt(4), PyInt(-17), PyInt(262143), PyInt(262144),
      PyLong(5), PyLong(70000),
      PyFloat(1), PyFloat(2), PyFloat(128), PyMillis(1500),
      PyStr(<<>>), PyStr(<<97, 98>>) }

\* args=[...] of at most MaxArgs primitives
ArgLists == UNION {[1..n -> Primitives] : n \in 0..MaxArgs}

\* the DubboRequest that send_request_and_return_response and
\* send_request_without_response build from their keyword arguments
client_request(id, twoway, service_name, method_name, args) ==
    DubboRequest(id, twoway, PyStr(<<50, 46, 53, 46, 51>>), PyStr(service_name),
                 PyStr(<<49, 46, 48>>), PyStr(method_name), args, PyDict(<<>>))

\* the call after encode(): the exception leaves the call, else sendall
\* writes the frame
e2e_sent(req, frame) ==
    IF IsFail(frame) THEN [call EXCEPT !.pc = "raised", !.req = req]
    ELSE [call EXCEPT !.pc = "sent", !.req = req, !.wire = frame]

\* send_request_and_return_response(service_name='calc', method_name=..., args=...)
\* up to the return of sendall: the first id of count(1), encode(), sendall
E2ESend ==
    /\ call.pc = "idle"
    /\ \E method_name \in {multi2, void, empty_ok} : \E args \in ArgLists :
        /\ method_name = multi2 => Len(args) = 1
        /\ call' = e2e_sent(client_request(1, TRUE, calc, method_name, args),
                            encode(client_request(1, TRUE, calc, method_name, args)))
    /\ UNCHANGED <<streamVars, connVars, codecVars, registryVars>>

\* handle after decode() returned r: an exception of decode() that is no
\* EOFError ends handle and EOFError closes the socket; else the handler is
\* looked up and called and the response built
e2e_handled(r) ==
    IF r.st # "ok"
    THEN call' = [call EXCEPT !.pc = "server_ended", !.wire = <<>>]
    ELSE IF lookup(r.val).kind = "absent"
         THEN call' = [call EXCEPT !.pc = "dropped", !.wire = <<>>]
         ELSE \E out \in invoke(lookup(r.val), r.val.args) :
                 call' = IF out.o = "EOFError"
                         THEN [call EXCEPT !.pc = "server_ended", !.wire = <<>>, !.out = out]
                         ELSE [call EXCEPT !.pc = "handled", !.wire = <<>>, !.out = out,
                                           !.resp = make_response(r.val, out)]

\* one turn of handle up to the call of sendall
E2EHandle ==
    /\ call.pc = "sent"
    /\ e2e_handled(decode(call.wire))
    /\ UNCHANGED <<streamVars, connVars, codecVars, registryVars>>

\* an exception of resp.encode() leaves handle, else sendall writes the frame
e2e_replied(frame) ==
    IF IsFail(frame) THEN [call EXCEPT !.pc = "server_ended"]
    ELSE [call EXCEPT !.pc = "replied", !.wire = frame]

\* handle: self.request.sendall(resp.encode())
E2EReply ==
    /\ call.pc = "handled"
    /\ call' = e2e_replied(encode(call.resp))
    /\ UNCHANGED <<streamVars, connVars, codecVars, registryVars>>

\* _recv_loop after decode() returned r: an exception ends the loop, a
\* message is put on _msg_queue
e2e_received(r) ==
    IF r.st # "ok" THEN [call EXCEPT !.pc = "recv_ended", !.wire = <<>>]
    ELSE [call EXCEPT !.pc = "queued", !.wire = <<>>, !.queued = r.val]

\* one turn of _recv_loop
E2ERecv ==
    /\ call.pc = "replied"
    /\ call' = e2e_received(decode(call.wire))
    /\ UNCHANGED <<streamVars, connVars, codecVars, registryVars>>

\* send_request_and_return_response: _msg_queue.get(True, self._timeout)
\* returns the queued message
E2EReturn ==
    /\ call.pc = "queued"
    /\ call' = [call EXCEPT !.pc = "returned", !.ret = call.queued, !.queued = NoMsg]
    /\ UNCHANGED <<streamVars, connVars, codecVars, registryVars>>

\* _msg_queue.get(True, self._timeout) raises Empty: nothing will be queued
E2ETimeout ==
    /\ call.pc \in {"server_ended", "dropped", "recv_ended"}
    /\ call' = [call EXCEPT !.pc = "timeout"]
    /\ UNCHANGED <<streamVars, connVars, codecVars, registryVars>>

\* ------------------------------------------------------------------------
\* One connection: dubbo/client.py against dubbo/server.py

\* the ids the callers may draw from DubboClient._request_id
MaxId == 2
\* what happens beside the calls on one connection: the wake-ups of the two
\* heartbeat loops, the telnet commands and the sendall calls that the
\* kernel takes in two parts
MaxEvents == 1

\* the application threads that call the client's public methods
Callers == {"t1", "t2"}

\* every thread that writes to a socket
Threads == Callers \cup {"_recv_loop", "_heartbeat_loop", "handle", "s_heartbeat_loop"}

\* the calls the application makes: <<twoway, method_name, args>>
Calls ==
    { <<TRUE, multi2, <<PyInt(4)>>>>,
      <<FALSE, multi2, <<PyInt(4)>>>>,
      <<TRUE, multi2, <<PyInt(262144)>>>>,
      <<TRUE, missing, <<>>>> }

\* the requests a peer of the server makes: <<twoway, method_name, args>>
Requests ==
    { <<TRUE, work, <<PyInt(4)>>>>,
      <<FALSE, work, <<PyInt(4)>>>>,
      <<TRUE, void, <<>>>>,
      <<TRUE, nosuch, <<>>>>,
      <<TRUE, request_id, <<>>>>,
      <<TRUE, missing, <<>>>> }

\* the bytes of a frame that a peer wrote and no encode() of this library
Frame(bytes) == [k |-> "frame", bytes |-> bytes]

\* the end of the bytes of a socket whose writer has closed it: recv
\* returns b'' there, and Decoder._read raises EOFError
EndOfStream == [k |-> "eof"]

\* the client's end of the connection is closed
PeerGone == \E p \in 1..Len(c2s) : c2s[p].m = EndOfStream

\* a part of the bytes of one message on a socket: the whole frame, or the
\* first or the second part of a frame that sendall wrote in two parts
Frag(m, part) == [m |-> m, part |-> part]

\* the receiver has the bytes of a whole frame to read
Readable(wire) ==
    /\ wire # <<>>
    /\ wire[1].part = "head" => Len(wire) >= 2

\* Decoder.decode on the bytes of message m, as the peer's encode() wrote
\* them; "desync" when the bytes are no well-formed frame
rx_frame(f) ==
    IF Len(f) # 16 + body_length(f) THEN [st |-> "desync", val |-> PyNone] ELSE decode(f)

\* Decoder.decode on the bytes of message m; the line of a telnet command
\* is kept as it is
rx(m) ==
    CASE m.k = "telnet" -> [st |-> "ok", val |-> m]
      [] m.k = "frame" -> rx_frame(m.bytes)
      [] m.k = "eof" -> [st |-> "eof", val |-> PyNone]
      [] OTHER -> rx_frame(encode(m))

\* one decode() on the socket: the result and what is left unread.  The first
\* part of a frame followed by anything but its second part is read as one
\* garbled frame
\* the stream after the bytes of its first message are read
Taken(wire) == IF wire[1].part = "whole" THEN Tail(wire) ELSE Tail(Tail(wire))

Receive(wire) ==
    [r |-> IF \/ wire[1].part = "whole"
              \/ wire[1].part = "head" /\ wire[2].part = "tail" /\ wire[2].m = wire[1].m
           THEN rx(wire[1].m)
           ELSE [st |-> "desync", val |-> PyNone],
     rest |-> Taken(wire)]

\* the events beside the calls that have happened
Spent == splits + cmds + c_beats.n + s_beats.n

\* self._sock.sendall(m.encode()) by client thread t: all bytes at once, or
\* a first part now and the rest in SendRest
send_c2s(t, m) ==
    \/ /\ c2s' = Append(c2s, Frag(m, "whole"))
       /\ UNCHANGED <<sending, splits>>
    \/ /\ Spent < MaxEvents
       /\ c2s' = Append(c2s, Frag(m, "head"))
       /\ sending' = [sending EXCEPT ![t] = m]
       /\ splits' = splits + 1

\* self.request.sendall(m.encode()) by server thread t
send_s2c(t, m) ==
    \/ /\ s2c' = Append(s2c, Frag(m, "whole"))
       /\ UNCHANGED <<sending, splits>>
    \/ /\ Spent < MaxEvents
       /\ s2c' = Append(s2c, Frag(m, "head"))
       /\ sending' = [sending EXCEPT ![t] = m]
       /\ splits' = splits + 1

\* thread t is not inside a sendall
Idle(t) == sending[t] = NoMsg


\* the events of handle's log
Invoked(msg, out) == [ev |-> "invoke", id |-> msg.id, msg |-> msg, out |-> out]
Dropped(msg) == [ev |-> "drop", id |-> msg.id, msg |-> msg]
Written(m) == [ev |-> "write", id |-> m.id, m |-> m]

\* sendall writes the second part of the frame it was cut in; on a socket
\* that handle has shut down and closed meanwhile the send raises an error
\* that is no EOFError and ends the heartbeat thread
SendRest ==
    \E t \in Threads :
        /\ sending[t] # NoMsg
        /\ sending' = [sending EXCEPT ![t] = NoMsg]
        /\ IF t \in {"handle", "s_heartbeat_loop"}
           THEN /\ s2c' = IF s_open THEN Append(s2c, Frag(sending[t], "tail")) ELSE s2c
                /\ UNCHANGED c2s
           ELSE /\ c2s' = Append(c2s, Frag(sending[t], "tail"))
                /\ UNCHANGED s2c
        /\ s_log' = IF t = "handle" /\ s_open THEN Append(s_log, Written(sending[t]))
                    ELSE s_log
        /\ s_beats' = IF t = "s_heartbeat_loop" /\ ~s_open
                      THEN [s_beats EXCEPT !.pc = "dead"] ELSE s_beats
        /\ UNCHANGED <<_request_id, _msg_queue, caller, c_recv, c_beats, splits, cmds,
                       s_pc, s_out, s_request_id, s_open>>
        /\ UNCHANGED <<streamVars, callVars, codecVars, registryVars>>

\* ------------------------------------------------------------------------
\* dubbo/client.py

\* a caller between two calls
Ready(c) == caller[c].pc \in {"idle", "returned", "timeout", "raised"}

\* send_request_and_return_response / send_request_without_response up to
\* the call of sendall: next(self._request_id), DubboRequest(...).encode()
Call(c) ==
    /\ Ready(c)
    /\ _request_id <= MaxId
    /\ \E k \in Calls :
        LET req == client_request(_request_id, k[1], calc, k[2], k[3])
        IN  caller' = [caller EXCEPT ![c] =
                IF IsFail(encode(req))
                THEN [pc |-> "raised", req |-> req, ret |-> NoMsg]
                ELSE [pc |-> "send", req |-> req, ret |-> NoMsg]]
    /\ _request_id' = _request_id + 1
    /\ UNCHANGED <<_msg_queue, c_recv, c_beats, c2s, s2c, sending, splits, cmds,
                   s_pc, s_out, s_request_id, s_beats, s_open, s_log>>
    /\ UNCHANGED <<streamVars, callVars, codecVars, registryVars>>

\* self._sock.sendall(...) of the two send_request methods; the one-way
\* method returns after it.  On a connection the server has closed sendall
\* may also raise.
CallSendall(c) ==
    /\ caller[c].pc = "send"
    /\ \/ /\ send_c2s(c, caller[c].req)
          /\ caller' = [caller EXCEPT ![c].pc = IF caller[c].req.twoway THEN "wait" ELSE "idle"]
       \/ /\ ~s_open
          /\ caller' = [caller EXCEPT ![c].pc = "raised"]
          /\ UNCHANGED <<c2s, sending, splits>>
    /\ UNCHANGED <<_request_id, _msg_queue, c_recv, c_beats, s2c, cmds,
                   s_pc, s_out, s_request_id, s_beats, s_open, s_log>>
    /\ UNCHANGED <<streamVars, callVars, codecVars, registryVars>>

\* return self._msg_queue.get(True, self._timeout): the head of the queue
CallReturn(c) ==
    /\ caller[c].pc = "wait"
    /\ Idle(c)
    /\ _msg_queue # <<>>
    /\ caller' = [caller EXCEPT ![c].pc = "returned", ![c].ret = Head(_msg_queue)]
    /\ _msg_queue' = Tail(_msg_queue)
    /\ UNCHANGED <<_request_id, c_recv, c_beats, c2s, s2c, sending, splits, cmds,
                   s_pc, s_out, s_request_id, s_beats, s_open, s_log>>
    /\ UNCHANGED <<streamVars, callVars, codecVars, registryVars>>

\* self._msg_queue.get(True, self._timeout) raises queue.Empty after 5 s
CallTimeout(c) ==
    /\ caller[c].pc = "wait"
    /\ Idle(c)
    /\ _msg_queue = <<>>
    /\ caller' = [caller EXCEPT ![c].pc = "timeout"]
    /\ UNCHANGED <<_request_id, _msg_queue, c_recv, c_beats, c2s, s2c, sending, splits,
                   cmds, s_pc, s_out, s_request_id, s_beats, s_open, s_log>>
    /\ UNCHANGED <<streamVars, callVars, codecVars, registryVars>>

\* get_services(): _execute_command('ls') up to the return of sendall
ExecuteCommand(c) ==
    /\ Ready(c)
    /\ Spent < MaxEvents
    /\ cmds' = cmds + 1
    /\ send_c2s(c, TelnetLine(<<108, 115, 10>>))
    /\ caller' = [caller EXCEPT ![c] = [pc |-> "cmd_wait", req |-> NoMsg, ret |-> NoMsg]]
    /\ UNCHANGED <<_request_id, _msg_queue, c_recv, c_beats, s2c,
                   s_pc, s_out, s_request_id, s_beats, s_open, s_log>>
    /\ UNCHANGED <<streamVars, callVars, codecVars, registryVars>>

\* _execute_command: self._msg_queue.get().decode().split('\r\n')[:-1]; a
\* queued message that is no bytes has no decode()
CommandReturn(c) ==
    /\ caller[c].pc = "cmd_wait"
    /\ Idle(c)
    /\ _msg_queue # <<>>
    /\ caller' = [caller EXCEPT ![c].pc = IF Head(_msg_queue).k = "telnet"
                                          THEN "returned" ELSE "raised",
                                ![c].ret = IF Head(_msg_queue).k = "telnet"
                                           THEN Head(_msg_queue) ELSE NoMsg]
    /\ _msg_queue' = Tail(_msg_queue)
    /\ UNCHANGED <<_request_id, c_recv, c_beats, c2s, s2c, sending, splits, cmds,
                   s_pc, s_out, s_request_id, s_beats, s_open, s_log>>
    /\ UNCHANGED <<streamVars, callVars, codecVars, registryVars>>

\* a receive loop that answers a heartbeat response as it answers a
\* two-way heartbeat request
client_received_answering(got) ==
    /\ s2c' = got.rest
    /\ c_recv' = CASE got.r.st = "ok" -> "run"
                   [] got.r.st = "eof" -> "stopped"
                   [] got.r.st = "desync" -> "desync"
                   [] OTHER -> "dead"
    /\ IF got.r.st = "ok" /\ got.r.val.k \in {"hb_request", "hb_response"}
       THEN /\ send_c2s("_recv_loop", DubboHeartBeatResponse(got.r.val.id, PyNone, FALSE))
            /\ UNCHANGED _msg_queue
       ELSE /\ _msg_queue' = IF got.r.st = "ok" THEN Append(_msg_queue, got.r.val)
                             ELSE _msg_queue
            /\ UNCHANGED <<c2s, sending, splits>>

\* _recv_loop after decode(): a two-way heartbeat request is answered,
\* heartbeats are skipped, anything else is queued; EOFError stops the loop,
\* any other exception ends its thread
client_received(got) ==
    /\ s2c' = got.rest
    /\ c_recv' = CASE got.r.st = "ok" -> "run"
                   [] got.r.st = "eof" -> "stopped"
                   [] got.r.st = "desync" -> "desync"
                   [] OTHER -> "dead"
    /\ IF got.r.st = "ok" /\ got.r.val.k = "hb_request" /\ got.r.val.twoway
       THEN /\ send_c2s("_recv_loop", DubboHeartBeatResponse(got.r.val.id, PyNone, FALSE))
            /\ UNCHANGED _msg_queue
       ELSE /\ _msg_queue' = IF /\ got.r.st = "ok"
                                /\ got.r.val.k \notin {"hb_request", "hb_response"}
                             THEN Append(_msg_queue, got.r.val) ELSE _msg_queue
            /\ UNCHANGED <<c2s, sending, splits>>

\* one turn of _recv_loop: decode(), then the dispatch on the message
ClientRecv ==
    /\ c_recv = "run"
    /\ Idle("_recv_loop")
    /\ Readable(s2c)
    /\ client_received(Receive(s2c))
    /\ UNCHANGED <<_request_id, caller, c_beats, cmds,
                   s_pc, s_out, s_request_id, s_beats, s_open, s_log>>
    /\ UNCHANGED <<streamVars, callVars, codecVars, registryVars>>

\* _recv_loop: recv returns b'' once the server has closed and all is read
ClientRecvEof ==
    /\ c_recv = "run"
    /\ Idle("_recv_loop")
    /\ s2c = <<>>
    /\ ~s_open
    /\ c_recv' = "stopped"
    /\ UNCHANGED <<_request_id, _msg_queue, caller, c_beats, c2s, s2c, sending, splits,
                   cmds, s_pc, s_out, s_request_id, s_beats, s_open, s_log>>
    /\ UNCHANGED <<streamVars, callVars, codecVars, registryVars>>

\* a _heartbeat_loop that reads the counter and leaves it where it is
ClientBeat_without_next ==
    /\ c_beats.pc = "sleep"
    /\ Idle("_heartbeat_loop")
    /\ Spent < MaxEvents
    /\ c_beats' = [pc |-> "send", id |-> _request_id, n |-> c_beats.n + 1]
    /\ UNCHANGED <<_request_id, _msg_queue, caller, c_recv, c2s, s2c, sending, splits, cmds,
                   s_pc, s_out, s_request_id, s_beats, s_open, s_log>>
    /\ UNCHANGED <<streamVars, callVars, codecVars, registryVars>>

\* _heartbeat_loop after time.sleep(60): next(self._request_id); awake
\* says that the sleep comes to its end
client_wakes(awake) ==
    /\ c_beats.pc = "sleep"
    /\ Idle("_heartbeat_loop")
    /\ awake
    /\ c_beats' = [pc |-> "send", id |-> _request_id, n |-> c_beats.n + 1]
    /\ _request_id' = _request_id + 1
    /\ UNCHANGED <<_msg_queue, caller, c_recv, c2s, s2c, sending, splits, cmds,
                   s_pc, s_out, s_request_id, s_beats, s_open, s_log>>
    /\ UNCHANGED <<streamVars, callVars, codecVars, registryVars>>

\* the heartbeat loop of a connection that has calls and commands
ClientBeat ==
    client_wakes(Spent < MaxEvents)

\* how often each heartbeat loop wakes on a connection that carries
\* heartbeats only
MaxBeats == 3

\* the heartbeat loop of a connection that carries heartbeats only
ClientTick ==
    client_wakes(c_beats.n < MaxBeats)

\* _heartbeat_loop: send_heartbeat_request(id); an exception of sendall is
\* no EOFError and ends the thread
ClientBeatSend ==
    /\ c_beats.pc = "send"
    /\ \/ /\ send_c2s("_heartbeat_loop", DubboHeartBeatRequest(c_beats.id, PyNone, FALSE))
          /\ c_beats' = [c_beats EXCEPT !.pc = "sleep"]
       \/ /\ ~s_open
          /\ c_beats' = [c_beats EXCEPT !.pc = "dead"]
          /\ UNCHANGED <<c2s, sending, splits>>
    /\ UNCHANGED <<_request_id, _msg_queue, caller, c_recv, s2c, cmds,
                   s_pc, s_out, s_request_id, s_beats, s_open, s_log>>
    /\ UNCHANGED <<streamVars, callVars, codecVars, registryVars>>

\* the frames a peer of the client writes before it stops
MaxPeerMessages == 2

\* what the peer of a client may write with the id it has reached: a
\* Response, the answer to a telnet command, the three heartbeats, and a
\* Request of its own
PeerMessages(id) ==
    { DubboResponse(id, DubboResponse_OK, PyInt(8), PyNone),
      TelnetLine(<<99, 97, 108, 99, 13, 10>>),
      DubboHeartBeatRequest(id, PyNone, TRUE),
      DubboHeartBeatRequest(id, PyNone, FALSE),
      DubboHeartBeatResponse(id, PyNone, FALSE),
      client_request(id, TRUE, calc, work, <<PyInt(4)>>) }

\* the peer of the client writes one message on the connection
PeerMessage ==
    /\ s_request_id <= MaxPeerMessages
    /\ s_request_id' = s_request_id + 1
    /\ \E m \in PeerMessages(s_request_id) : s2c' = Append(s2c, Frag(m, "whole"))
    /\ UNCHANGED <<_request_id, _msg_queue, caller, c_recv, c_beats, c2s, sending, splits,
                   cmds, s_pc, s_out, s_beats, s_open, s_log>>
    /\ UNCHANGED <<streamVars, callVars, codecVars, registryVars>>

\* a Response frame with status OK whose body the peer wrote itself
ResponseFrame(id, body) ==
    Frame(Cat(Response_encode_header(DubboResponse(id, DubboResponse_OK, PyNone, PyNone)),
              encode_body(body)))

\* what the peer of a client may write with the id it has reached: a
\* well-formed Response, and Responses whose body is the status code 1 and
\* then the first byte of a two-byte int with nothing after it, a lone 'Z',
\* the tag 'I' with its four bytes, the unimplemented tag 0x57
PeerFrames(id) ==
    { DubboResponse(id, DubboResponse_OK, PyInt(8), PyNone),
      ResponseFrame(id, <<145, 200>>),
      ResponseFrame(id, <<145, 90>>),
      ResponseFrame(id, <<145, 73, 0, 4, 0, 0>>),
      ResponseFrame(id, <<145, 87>>) }

\* the peer of the client writes one frame on the connection
PeerFrame ==
    /\ s_open
    /\ s_request_id <= MaxPeerMessages
    /\ s_request_id' = s_request_id + 1
    /\ \E m \in PeerFrames(s_request_id) : s2c' = Append(s2c, Frag(m, "whole"))
    /\ UNCHANGED <<_request_id, _msg_queue, caller, c_recv, c_beats, c2s, sending, splits,
                   cmds, s_pc, s_out, s_beats, s_open, s_log>>
    /\ UNCHANGED <<streamVars, callVars, codecVars, registryVars>>

\* the peer of the client closes the connection
PeerShutdown ==
    /\ s_open
    /\ s_open' = FALSE
    /\ UNCHANGED <<_request_id, _msg_queue, caller, c_recv, c_beats, c2s, s2c, sending,
                   splits, cmds, s_pc, s_out, s_request_id, s_beats, s_log>>
    /\ UNCHANGED <<streamVars, callVars, codecVars, registryVars>>

\* ------------------------------------------------------------------------
\* dubbo/server.py: _DubboRequestHandler

\* a peer of the server writes a frame on the connection: one of Requests
\* with the next id, or a heartbeat request
PeerRequest ==
    /\ _request_id <= MaxId
    /\ _request_id' = _request_id + 1
    /\ \/ \E k \in Requests :
             c2s' = Append(c2s, Frag(client_request(_request_id, k[1], calc, k[2], k[3]),
                                     "whole"))
       \/ c2s' = Append(c2s, Frag(DubboHeartBeatRequest(_request_id, PyNone, TRUE), "whole"))
    /\ UNCHANGED <<_msg_queue, caller, c_recv, c_beats, s2c, sending, splits, cmds,
                   s_pc, s_out, s_request_id, s_beats, s_open, s_log>>
    /\ UNCHANGED <<streamVars, callVars, codecVars, registryVars>>

\* where handle stands after a step, what it is about to send, whether its
\* socket is open, and its log
server_goes(pc, out, open, log) ==
    /\ s_pc' = pc
    /\ s_out' = out
    /\ s_open' = open
    /\ s_log' = log

\* handle on a decoded DubboRequest: no handler, or the handler's call and
\* the response built from its outcome, encoded for sendall.  EOFError of
\* the handler closes the socket; an exception of resp.encode() leaves
\* handle, and the socket server closes the socket.
handle_request(msg) ==
    LET handler == lookup(msg)
    IN  IF handler.kind = "absent"
        THEN server_goes("decode", NoMsg, TRUE, Append(s_log, Dropped(msg)))
        ELSE \E out \in invoke(handler, msg.args) :
                LET log == Append(s_log, Invoked(msg, out))
                IN  IF out.o = "EOFError"
                    THEN server_goes("closed", NoMsg, FALSE, log)
                    ELSE IF IsFail(encode(make_response(msg, out)))
                         THEN server_goes("ended", NoMsg, FALSE, log)
                         ELSE server_goes("reply", make_response(msg, out), TRUE, log)

\* the dispatch of a handle whose loop has no "except EOFError": the end of
\* the stream is passed over and the loop reads on
server_decoded_reading_on(r) ==
    CASE r.st = "desync" -> server_goes("desync", NoMsg, TRUE, s_log)
      [] r.st = "eof" -> server_goes("decode", NoMsg, TRUE, s_log)
      [] r.st \in {"err", "unmodelled"} -> server_goes("ended", NoMsg, FALSE, s_log)
      [] r.st = "ok" /\ r.val.k = "telnet" -> server_goes("telnet", NoMsg, TRUE, s_log)
      [] r.st = "ok" /\ r.val.k = "hb_request" ->
            server_goes("reply", DubboHeartBeatResponse(r.val.id, PyNone, FALSE), TRUE, s_log)
      [] r.st = "ok" /\ r.val.k = "hb_response" -> server_goes("decode", NoMsg, TRUE, s_log)
      [] r.st = "ok" /\ r.val.k = "request" -> handle_request(r.val)
      [] OTHER -> server_goes("ended", NoMsg, FALSE, s_log)

\* handle after decode(): the dispatch on the message.  A telnet line
\* without a prompt leaves decode() reading; EOFError closes the socket; any
\* other exception leaves handle.
server_decoded(r) ==
    CASE r.st = "desync" -> server_goes("desync", NoMsg, TRUE, s_log)
      [] r.st = "eof" -> server_goes("closed", NoMsg, FALSE, s_log)
      [] r.st \in {"err", "unmodelled"} -> server_goes("ended", NoMsg, FALSE, s_log)
      [] r.st = "ok" /\ r.val.k = "telnet" -> server_goes("telnet", NoMsg, TRUE, s_log)
      [] r.st = "ok" /\ r.val.k = "hb_request" ->
            server_goes("reply", DubboHeartBeatResponse(r.val.id, PyNone, FALSE), TRUE, s_log)
      [] r.st = "ok" /\ r.val.k = "hb_response" -> server_goes("decode", NoMsg, TRUE, s_log)
      [] r.st = "ok" /\ r.val.k = "request" -> handle_request(r.val)
      [] OTHER -> server_goes("ended", NoMsg, FALSE, s_log)

\* one turn of handle's loop up to the call of sendall
ServerDecode ==
    /\ s_pc = "decode"
    /\ Idle("handle")
    /\ Readable(c2s)
    /\ c2s' = Receive(c2s).rest
    /\ server_decoded(Receive(c2s).r)
    /\ UNCHANGED <<_request_id, _msg_queue, caller, c_recv, c_beats, s2c, sending, splits,
                   cmds, s_request_id, s_beats>>
    /\ UNCHANGED <<streamVars, callVars, codecVars, registryVars>>

\* handle: self.request.sendall(...) of the response or heartbeat response;
\* the write is logged when sendall has written the whole frame.  Once the
\* peer has closed, sendall may raise an error that is no EOFError: it
\* leaves handle, and the socket server closes the socket.
ServerReply ==
    /\ s_pc = "reply"
    /\ \/ /\ s2c' = Append(s2c, Frag(s_out, "whole"))
          /\ s_log' = Append(s_log, Written(s_out))
          /\ s_pc' = "decode"
          /\ UNCHANGED <<sending, splits, s_open>>
       \/ /\ Spent < MaxEvents
          /\ s2c' = Append(s2c, Frag(s_out, "head"))
          /\ sending' = [sending EXCEPT !["handle"] = s_out]
          /\ splits' = splits + 1
          /\ s_pc' = "decode"
          /\ UNCHANGED <<s_log, s_open>>
       \/ /\ PeerGone
          /\ s_pc' = "ended"
          /\ s_open' = FALSE
          /\ UNCHANGED <<s2c, sending, splits, s_log>>
    /\ s_out' = NoMsg
    /\ UNCHANGED <<_request_id, _msg_queue, caller, c_recv, c_beats, c2s, cmds,
                   s_request_id, s_beats>>
    /\ UNCHANGED <<streamVars, callVars, codecVars, registryVars>>

\* _heartbeat_loop after time.sleep(60): a two-way heartbeat request with
\* the next id of the handler's own counter; sendall on the closed socket
\* raises an error that is no EOFError and ends the thread, and so it may
\* on a socket whose peer has closed; awake says that the sleep comes
\* to its end
server_wakes(awake) ==
    /\ s_beats.pc = "run"
    /\ Idle("s_heartbeat_loop")
    /\ awake
    /\ s_request_id' = s_request_id + 1
    /\ \/ /\ s_open
          /\ send_s2c("s_heartbeat_loop", DubboHeartBeatRequest(s_request_id, PyNone, TRUE))
          /\ s_beats' = [pc |-> "run", n |-> s_beats.n + 1]
       \/ /\ ~s_open \/ PeerGone
          /\ s_beats' = [pc |-> "dead", n |-> s_beats.n + 1]
          /\ UNCHANGED <<s2c, sending, splits>>
    /\ UNCHANGED <<_request_id, _msg_queue, caller, c_recv, c_beats, c2s, cmds,
                   s_pc, s_out, s_open, s_log>>
    /\ UNCHANGED <<streamVars, callVars, codecVars, registryVars>>

\* the heartbeat loop of a connection that has calls and commands
ServerBeat ==
    server_wakes(Spent < MaxEvents)

\* the heartbeat loop of a connection that carries heartbeats only
ServerTick ==
    server_wakes(s_beats.n < MaxBeats)

\* the peer has neither closed nor seen the server close
PeerUp == ~PeerGone /\ s_pc # "closed"

\* a peer that is still there writes a request or a heartbeat request
PeerWrite == PeerUp /\ PeerRequest

\* a peer that is still there writes the telnet command ls, once
PeerCommand ==
    /\ PeerUp
    /\ s_pc # "telnet"
    /\ \A p \in 1..Len(c2s) : c2s[p].m.k # "telnet"
    /\ c2s' = Append(c2s, Frag(TelnetLine(<<108, 115, 10>>), "whole"))
    /\ UNCHANGED <<_request_id, _msg_queue, caller, c_recv, c_beats, s2c, sending, splits,
                   cmds, s_pc, s_out, s_request_id, s_beats, s_open, s_log>>
    /\ UNCHANGED <<streamVars, callVars, codecVars, registryVars>>

\* the peer closes its end of the connection
PeerCloses ==
    /\ PeerUp
    /\ c2s' = Append(c2s, Frag(EndOfStream, "whole"))
    /\ UNCHANGED <<_request_id, _msg_queue, caller, c_recv, c_beats, s2c, sending, splits,
                   cmds, s_pc, s_out, s_request_id, s_beats, s_open, s_log>>
    /\ UNCHANGED <<streamVars, callVars, codecVars, registryVars>>

\* handle inside decode() of a telnet line, in _read_until_prompt: no
\* prompt comes, every byte the peer wrote is read, and at the end of the
\* stream _read raises EOFError: shutdown, close, break
ServerPromptEof ==
    /\ s_pc = "telnet"
    /\ PeerGone
    /\ c2s' = <<>>
    /\ server_goes("closed", NoMsg, FALSE, s_log)
    /\ UNCHANGED <<_request_id, _msg_queue, caller, c_recv, c_beats, s2c, sending, splits,
                   cmds, s_request_id, s_beats>>
    /\ UNCHANGED <<streamVars, callVars, codecVars, registryVars>>

\* ------------------------------------------------------------------------
\* The specifications

\* a Decoder on a fresh socket
InitStream ==
    /\ items = <<>>
    /\ stream = <<>>
    /\ pos = 0
    /\ peer_closed = FALSE
    /\ d_pc = "magic"
    /\ header = <<>>
    /\ received = <<>>
    /\ results = <<>>

\* a client about to make its first call
InitCall ==
    call = [pc |-> "idle", req |-> NoMsg, wire |-> <<>>, out |-> NoMsg, resp |-> NoMsg,
            queued |-> NoMsg, ret |-> NoMsg]

\* DubboClient.__init__ and _DubboRequestHandler.__init__: the connection
\* is made, the counters start at 1, the queue is empty, the loops run
InitConn ==
    /\ _request_id = 1
    /\ _msg_queue = <<>>
    /\ caller = [c \in Callers |-> [pc |-> "idle", req |-> NoMsg, ret |-> NoMsg]]
    /\ c_recv = "run"
    /\ c_beats = [pc |-> "sleep", id |-> 0, n |-> 0]
    /\ c2s = <<>>
    /\ s2c = <<>>
    /\ sending = [t \in Threads |-> NoMsg]
    /\ splits = 0
    /\ cmds = 0
    /\ s_pc = "decode"
    /\ s_out = NoMsg
    /\ s_request_id = 1
    /\ s_beats = [pc |-> "run", n |-> 0]
    /\ s_open = TRUE
    /\ s_log = <<>>

\* no call of the codec yet; the default list is the [] of the def statement
InitCodec ==
    /\ unit = [op |-> "none"]
    /\ cls_names = <<>>

\* DubboService.__init__ and the import of dubbo.server
InitRegistry ==
    /\ _services = <<>>
    /\ _pid_gen = 1
    /\ ensured = <<>>

Init == InitStream /\ InitCall /\ InitConn /\ InitCodec /\ InitRegistry

\* the connection
Next ==
    \/ \E c \in Callers : Call(c)
    \/ \E c \in Callers : CallSendall(c)
    \/ \E c \in Callers : CallReturn(c)
    \/ \E c \in Callers : CallTimeout(c)
    \/ \E c \in Callers : ExecuteCommand(c)
    \/ \E c \in Callers : CommandReturn(c)
    \/ ClientRecv
    \/ ClientRecvEof
    \/ ClientBeat
    \/ ClientBeatSend
    \/ SendRest
    \/ ServerDecode
    \/ ServerReply
    \/ ServerBeat

Spec == Init /\ [][Next]_vars

\* the server's side of a connection
NextServer ==
    \/ PeerRequest
    \/ ServerDecode
    \/ ServerReply
    \/ ServerBeat
    \/ SendRest

SpecServer == Init /\ [][NextServer]_vars

\* the client's side of a connection
NextClient ==
    \/ PeerMessage
    \/ \E c \in Callers : Call(c)
    \/ \E c \in Callers : CallSendall(c)
    \/ \E c \in Callers : CallReturn(c)
    \/ \E c \in Callers : CallTimeout(c)
    \/ ClientRecv
    \/ SendRest

SpecClient == Init /\ [][NextClient]_vars

\* the client's receive loop and the frames of a peer
NextFaults ==
    \/ PeerFrame
    \/ PeerShutdown
    \/ \E c \in Callers : Call(c)
    \/ \E c \in Callers : CallSendall(c)
    \/ \E c \in Callers : CallReturn(c)
    \/ \E c \in Callers : CallTimeout(c)
    \/ ClientRecv
    \/ ClientRecvEof
    \/ SendRest

SpecFaults == Init /\ [][NextFaults]_vars

\* the server's side of a connection whose peer closes it
NextServerClose ==
    \/ PeerWrite
    \/ PeerCommand
    \/ PeerCloses
    \/ ServerDecode
    \/ ServerReply
    \/ ServerPromptEof
    \/ ServerBeat
    \/ SendRest

\* handle takes the next message off its socket: the step of ServerDecode
\* on the stream
HandleReads ==
    /\ s_pc = "decode"
    /\ Idle("handle")
    /\ Readable(c2s)
    /\ c2s' = Taken(c2s)

\* the handler thread runs whenever it can: it is a thread of its own
\* that waits for nothing but its socket
SpecServerClose ==
    /\ Init
    /\ [][NextServerClose]_vars
    /\ WF_c2s(HandleReads)
    /\ WF_vars(ServerReply)
    /\ WF_vars(ServerPromptEof)
    /\ WF_vars(SendRest)

\* a connection that carries nothing but the heartbeats of its two sides
NextBeats ==
    \/ ClientTick
    \/ ClientBeatSend
    \/ ClientRecv
    \/ ServerTick
    \/ ServerDecode
    \/ ServerReply
    \/ SendRest

SpecBeats == Init /\ [][NextBeats]_vars

\* the Decoder over a stream
NextStream ==
    \/ PeerSend
    \/ PeerClose
    \/ ReadMagic
    \/ ReadHeader
    \/ ReadBody
    \/ ReadPrompt
    \/ ReadEof

SpecStream == Init /\ [][NextStream]_vars

\* one end-to-end call
NextCall ==
    \/ E2ESend
    \/ E2EHandle
    \/ E2EReply
    \/ E2ERecv
    \/ E2EReturn
    \/ E2ETimeout

SpecCall == Init /\ [][NextCall]_vars

\* ------------------------------------------------------------------------
\* Calls of the codec's functions on their own, as dubbo's unit tests make
\* them: Decoder(BytesIO(...)) on the bytes of one frame or of one object

\* 'path' and 'a'
path == <<112, 97, 116, 104>>
letter_a == <<97>>

\* the messages whose frames are decoded
CodecMessages ==
    { DubboRequest(1, TRUE, PyStr(<<50, 46, 53, 46, 51>>), PyStr(calc), PyStr(<<49, 46, 48>>),
                   PyStr(multi2), <<PyInt(4)>>, PyDict(<<>>)),
      DubboRequest(2, FALSE, PyStr(<<50, 46, 53, 46, 51>>), PyStr(calc), PyStr(<<49, 46, 48>>),
                   PyStr(multi2), <<PyStr(letter_a), PyInt(300)>>,
                   PyDict(<< <<PyStr(path), PyStr(calc)>> >>)),
      DubboResponse(3, DubboResponse_OK, PyInt(16), PyNone),
      DubboResponse(4, DubboResponse_OK, PyNone, PyNone),
      DubboResponse(5, DubboResponse_OK,
                    PyDict(<< <<PyStr(letter_a), PyInt(1)>>, <<PyStr(path), PyInt(300)>> >>),
                    PyNone),
      DubboResponse(6, 40, PyNone, PyStr(<<98, 111, 111, 109>>)),
      DubboHeartBeatRequest(7, PyNone, TRUE),
      DubboHeartBeatResponse(8, PyNone, FALSE) }

\* the frame a peer sends whose header states a body of n bytes: the header
\* of frame f with that length, and the first n bytes of f's body
Truncated(f, n) ==
    SubSeq(f, 1, 12) \o int_to_bytes(n, 4, FALSE) \o SubSeq(f, 17, 16 + n)

\* Decoder(BytesIO(frame)).decode() on the frame of m cut to n body bytes;
\* needs is how many bytes of the body the parser of the whole frame reads
DecodeFrame ==
    \E m \in CodecMessages :
        \E n \in 0..body_length(encode(m)) :
            /\ unit' = [op |-> "decode", m |-> m, cut |-> n,
                        needs |-> parse_body(SubSeq(encode(m), 1, 16),
                                             SubSeq(encode(m), 17, Len(encode(m)))).pos,
                        res |-> decode(Truncated(encode(m), n))]
            /\ UNCHANGED <<cls_names, streamVars, callVars, connVars, registryVars>>

\* the numbers given to encode_object: ints, longs and integral doubles at
\* and around the limits of the encoder's forms
Numbers ==
    {PyInt(n) : n \in {0, -16, 47, -17, 48, -2048, 2047, -2049, 2048, -262144, 262143,
                       262144, -262145, 323875, 2147483647, -2147483647}}
    \cup {PyLong(n) : n \in {0, -8, 15, -9, 16, -2048, 2047, -2049, 2048, -262144, 262143,
                              262144, -262145, 1234567890, 2147483647, -2147483647}}
    \cup {PyFloat(n) : n \in {0, 1, -1, 2, 127, -127, -128, 128, -129, 255, 256, 1000,
                               32767, -32768, 32768, -32769}}

\* Decoder(BytesIO(encode_object(field)))._read_object(), when encode_object
\* returned bytes
EncodeObject ==
    \E field \in Numbers :
        /\ unit' = [op |-> "encode_object", field |-> field,
                    bytes |-> encode_object(field),
                    res |-> IF IsFail(encode_object(field)) THEN Raise("none", 0)
                            ELSE _read_object(encode_object(field), 0)]
        /\ UNCHANGED <<cls_names, streamVars, callVars, connVars, registryVars>>

\* the ids of the messages that make a round trip
RoundTripIds == {0, 1, 570, 65536, 2147483647}

\* the data of an OK Response
ResponseData ==
    { PyNone, PyBool(TRUE), PyInt(0), PyInt(16), PyInt(262144), PyLong(5), PyFloat(-1),
      PyFloat(128), PyMillis(1500), PyStr(<<>>), PyStr(<<98, 111, 111, 109>>), PyDict(<<>>),
      PyDict(<< <<PyStr(letter_a), PyInt(1)>> >>) }

\* the messages that make a round trip: Responses whose error is None
\* exactly when the status is OK, and heartbeats without data
RoundTripMessages ==
    {DubboResponse(id, DubboResponse_OK, data, PyNone) :
        id \in RoundTripIds, data \in ResponseData}
    \cup {DubboResponse(id, status, PyNone, PyStr(error)) :
            id \in {1}, status \in {0, 40, 90, 255, 256},
            error \in {<<>>, <<98, 111, 111, 109>>}}
    \cup {DubboHeartBeatRequest(id, PyNone, twoway) :
            id \in RoundTripIds, twoway \in BOOLEAN}
    \cup {DubboHeartBeatResponse(id, PyNone, twoway) :
            id \in RoundTripIds, twoway \in BOOLEAN}

\* Decoder(BytesIO(m.encode())).decode(), when encode() returned a frame
EncodeDecode ==
    \E m \in RoundTripMessages :
        /\ unit' = [op |-> "round_trip", m |-> m, frame |-> encode(m),
                    res |-> IF IsFail(encode(m)) THEN [st |-> "none", val |-> PyNone]
                            ELSE decode(encode(m))]
        /\ UNCHANGED <<cls_names, streamVars, callVars, connVars, registryVars>>

\* 'b', 'c', 'child', 'parent', 'family', 'test'
letter_b == <<98>>
letter_c == <<99>>
child == <<99, 104, 105, 108, 100>>
parent == <<112, 97, 114, 101, 110, 116>>
family == <<102, 97, 109, 105, 108, 121>>
test == <<116, 101, 115, 116>>

\* new_object('child', b=long(n))
Child(n) == PyObject(child, << <<letter_b, PyLong(n)>> >>)

\* the objects given to encode_object: the tests' objects, and one that
\* holds two instances of one class
Objects ==
    { Child(2),
      PyObject(test, << <<letter_a, PyInt(1)>>, <<letter_b, PyInt(2)>> >>),
      PyObject(parent, << <<letter_a, Child(2)>> >>),
      PyObject(family, << <<letter_a, Child(2)>>, <<letter_c, Child(3)>> >>) }

\* encode_object(field, 0, []) with a new list, or encode_object(field)
\* with the list of the def statement, which the call may leave longer;
\* fresh is what the first call of a process returns
EncodeRecord ==
    \E field \in Objects, default \in BOOLEAN :
        /\ unit' = [op |-> "encode_record", field |-> field, default |-> default,
                    bytes |-> encode_object_with(field, 0,
                                                 IF default THEN cls_names ELSE <<>>).bytes,
                    fresh |-> encode_object_with(field, 0, <<>>).bytes]
        /\ cls_names' = IF default THEN encode_object_with(field, 0, cls_names).cls_names
                        ELSE cls_names
        /\ UNCHANGED <<streamVars, callVars, connVars, registryVars>>

\* the records whose classes meet in one byte string: flat ones, one with
\* a record in a field, ones with two sibling records of one class and of
\* two classes, and one nested in a record of its own class
Records ==
    { Child(2),
      Child(3),
      PyObject(test, << <<letter_a, PyInt(1)>>, <<letter_b, PyStr(letter_c)>> >>),
      PyObject(parent, << <<letter_a, Child(2)>> >>),
      PyObject(family, << <<letter_a, Child(2)>>, <<letter_c, Child(3)>> >>),
      PyObject(family, << <<letter_a, Child(2)>>,
                          <<letter_c, PyObject(test, << <<letter_a, PyInt(1)>>,
                                                        <<letter_b, PyStr(letter_c)>> >>)>> >>),
      PyObject(parent, << <<letter_a, PyInt(1)>>,
                          <<letter_b, PyObject(parent, << <<letter_a, PyInt(2)>>,
                                                          <<letter_b, PyNone>> >>)>> >>) }

\* the values with records in them: the records, lists of one and of two
\* records, dicts with a record as a value, a record with a list in a field
RecordValues ==
    Records
    \cup {PyList(<<r>>) : r \in Records}
    \cup {PyList(<<r, q>>) : r \in Records, q \in Records}
    \cup {PyDict(<< <<PyStr(letter_a), r>> >>) : r \in Records}
    \cup {PyObject(parent, << <<letter_a, PyList(<<r>>)>> >>) : r \in Records}

\* args=[...] of one or two arguments, each a record or the int 4
RecordArgs ==
    UNION {[1..n -> Records \cup {PyInt(4)}] : n \in 1..2}

\* Decoder(BytesIO(encode_object(field, 0, []))): _read_object() on a new
\* Decoder's empty table
DecodeValue ==
    \E field \in RecordValues :
        LET decoded(bytes) ==
                [op |-> "decode_value", field |-> field, bytes |-> bytes,
                 res |-> IF IsFail(bytes) THEN Read(Raise("err", 0), <<>>)
                         ELSE _read_object_in(bytes, 0, <<>>)]
        IN  /\ unit' = decoded(encode_object_with(field, 0, <<>>).bytes)
            /\ UNCHANGED <<cls_names, streamVars, callVars, connVars, registryVars>>

\* the arguments of a request: DubboRequest._get_args() writes them, the
\* loop of _decode_request_body reads them, one _read_object() for each,
\* no 'C' block having come before them in the body
DecodeArgs ==
    \E args \in RecordArgs :
        LET decoded(bytes) ==
                [op |-> "decode_args", field |-> args, bytes |-> bytes,
                 res |-> IF IsFail(bytes) THEN Read(Raise("err", 0), <<>>)
                         ELSE read_args_in(bytes, 0, <<>>, Len(args))]
        IN  /\ unit' = decoded(_get_args(args))
            /\ UNCHANGED <<cls_names, streamVars, callVars, connVars, registryVars>>

\* the codec's functions on numbers and frames
NextCodec ==
    \/ DecodeFrame
    \/ EncodeObject
    \/ EncodeDecode

SpecCodec == Init /\ [][NextCodec]_vars

\* a process that encodes objects, one call after the other
NextRecords ==
    \/ EncodeRecord

SpecRecords == Init /\ [][NextRecords]_vars

\* the class definitions and instances of a byte string, written and read
NextClasses ==
    \/ DecodeValue
    \/ DecodeArgs

SpecClasses == Init /\ [][NextClasses]_vars

\* ------------------------------------------------------------------------
\* dubbo/server.py: DubboService.add_method and DubboService.register, with
\* the KazooClient, get_pub_ip and get_timestamp of the service's test

\* how many calls of register are followed
MaxRegisters == 2

\* str(n) of an int n >= 0
RECURSIVE str_int(_)
str_int(n) ==
    IF n < 10 THEN <<48 + n>> ELSE Append(str_int(n \div 10), 48 + (n % 10))

\* ",".join(methods)
RECURSIVE join_comma(_)
join_comma(methods) ==
    IF methods = <<>> THEN <<>>
    ELSE IF Len(methods) = 1 THEN methods[1]
    ELSE methods[1] \o <<44>> \o join_comma(Tail(methods))

\* one hexadecimal digit, upper case
hex_digit(d) == IF d < 10 THEN 48 + d ELSE 55 + d

\* urllib.parse.quote_plus of an ASCII string: letters, digits and "_.-~"
\* stay, a space becomes "+", any other char becomes "%XX"; one half of
\* the string after the other
RECURSIVE quote_plus(_)
quote_plus(cs) ==
    IF cs = <<>> THEN <<>>
    ELSE IF Len(cs) = 1
         THEN IF \/ cs[1] \in 48..57
                 \/ cs[1] \in 65..90
                 \/ cs[1] \in 97..122
                 \/ cs[1] \in {95, 46, 45, 126}
              THEN cs
              ELSE IF cs[1] = 32 THEN <<43>>
              ELSE <<37, hex_digit(cs[1] \div 16), hex_digit(cs[1] % 16)>>
         ELSE quote_plus(SubSeq(cs, 1, Len(cs) \div 2))
                  \o quote_plus(SubSeq(cs, Len(cs) \div 2 + 1, Len(cs)))

\* '10.0.1.120', 12345, 'unit-test', '2.5.3', 1234567890: the service of
\* test_dubbo_register and what its get_pub_ip and get_timestamp return
_host == <<49, 48, 46, 48, 46, 49, 46, 49, 50, 48>>
_port == 12345
_app == <<117, 110, 105, 116, 45, 116, 101, 115, 116>>
_dubbo_version == <<50, 46, 53, 46, 51>>
get_timestamp == 1234567890

\* 'a.service', 'b.service', 'doGet', 'doPost', '1.0.0', '1.1', 'grp'
a_service == <<97, 46, 115, 101, 114, 118, 105, 99, 101>>
b_service == <<98, 46, 115, 101, 114, 118, 105, 99, 101>>
doGet == <<100, 111, 71, 101, 116>>
doPost == <<100, 111, 80, 111, 115, 116>>
version_1_0_0 == <<49, 46, 48, 46, 48>>
version_1_1 == <<49, 46, 49>>
grp == <<103, 114, 112>>

\* the url that register builds for one service; group <<>> stands for a
\* group that is None or ''
provider_url(service, methods, version, revision, group, pid) ==
    LET grp_field == IF group = <<>> THEN <<>> ELSE <<103, 114, 111, 117, 112, 61>> \o group
    IN  <<100, 117, 98, 98, 111, 58, 47, 47>> \o _host \o <<58>> \o str_int(_port) \o <<47>> \o service
        \o 
        <<63, 97, 110, 121, 104, 111, 115, 116, 61, 116, 114, 117, 101, 38, 97, 112, 112,
        108, 105, 99, 97, 116, 105, 111, 110, 61>> \o _app
        \o <<38, 100, 117, 98, 98, 111, 61>> \o _dubbo_version \o grp_field
        \o <<38, 105, 110, 116, 101, 114, 102, 97, 99, 101, 61>> \o service
        \o <<38, 109, 101, 116, 104, 111, 100, 115, 61>> \o join_comma(methods)
        \o <<38, 112, 105, 100, 61>> \o str_int(pid)
        \o <<38, 114, 101, 118, 105, 115, 105, 111, 110, 61>> \o revision
        \o 
        <<38, 115, 105, 100, 101, 61, 112, 114, 111, 118, 105, 100, 101, 114, 38, 116, 105,
        109, 101, 115, 116, 97, 109, 112, 61>> \o str_int(get_timestamp)
        \o <<38, 118, 101, 114, 115, 105, 111, 110, 61>> \o version

\* the path register gives to ensure_path for one service
provider_path(service, methods, version, revision, group, pid) ==
    <<47, 100, 117, 98, 98, 111, 47>> \o service \o <<47, 112, 114, 111, 118, 105, 100, 101, 114, 115, 47>>
        \o quote_plus(provider_url(service, methods, version, revision, group, pid))

\* the loop of register over self._services.items(): the paths, one per
\* service, the i-th with the i-th value drawn from _pid_gen
RECURSIVE register_paths(_, _, _, _, _)
register_paths(services, version, revision, group, pid) ==
    IF services = <<>> THEN <<>>
    ELSE <<provider_path(services[1][1], services[1][2], version, revision, group, pid)>>
            \o register_paths(Tail(services), version, revision, group, pid + 1)

\* service_map = self._services.setdefault(service, {}); service_map[method]
\* = handler.  _services keeps the <<service, methods>> pairs and the
\* methods of a service in the order of insertion, as a dict does
set_method(services, service, method) ==
    IF \E i \in 1..Len(services) : services[i][1] = service
    THEN [i \in 1..Len(services) |->
            IF services[i][1] = service
               /\ ~\E j \in 1..Len(services[i][2]) : services[i][2][j] = method
            THEN <<service, Append(services[i][2], method)>>
            ELSE services[i]]
    ELSE Append(services, <<service, <<method>>>>)

\* DubboService.add_method(service, method, handler)
AddMethod ==
    \E service \in {a_service, b_service}, method \in {doGet, doPost} :
        /\ _services' = set_method(_services, service, method)
        /\ _services' # _services
        /\ UNCHANGED <<_pid_gen, ensured, streamVars, callVars, connVars, codecVars>>

\* DubboService.register(zk, version, revision, group): ensured gets one
\* entry per call, with the call's arguments, the services and the counter
\* it found, and the paths it gave to ensure_path
Register ==
    \E version \in {version_1_0_0, version_1_1}, group \in {<<>>, grp} :
        /\ Len(ensured) < MaxRegisters
        /\ ensured' = Append(ensured,
                [version |-> version, revision |-> version_1_0_0, group |-> group,
                 services |-> _services, pid |-> _pid_gen,
                 paths |-> register_paths(_services, version, version_1_0_0, group,
                                          _pid_gen)])
        /\ _pid_gen' = _pid_gen + Len(_services)
        /\ UNCHANGED <<_services, streamVars, callVars, connVars, codecVars>>

\* a DubboService that gets methods and is registered
NextRegistry ==
    \/ AddMethod
    \/ Register

SpecRegistry == Init /\ [][NextRegistry]_vars

\* ------------------------------------------------------------------------
\* Properties of one connection

\* the events of handle's log: the call of a handler, the write of a Response
IsInvoke(e) == e.ev = "invoke"
IsResponseWrite(e) == e.ev = "write" /\ e.m.k = "response"
\* how many handler calls and how many Response writes are among the first
\* n events of handle's log
InvokesIn(n) == Cardinality({j \in 1..n : IsInvoke(s_log[j])})
ResponseWritesIn(n) == Cardinality({j \in 1..n : IsResponseWrite(s_log[j])})
\* handle is neither about to write nor inside a sendall
HandleAtRest == s_pc # "reply" /\ Idle("handle")

\* C1: every call of send_request_and_return_response that returns a message
\* returns the Response whose id is the id this call gave to its own request
C1_ReturnsOwnResponse ==
    \A c \in Callers :
        (caller[c].pc = "returned" /\ caller[c].req.k = "request") =>
            /\ caller[c].ret.k = "response"
            /\ caller[c].ret.id = caller[c].req.id

\* a two-way call has returned the Response of another request although
\* every request the server handled was a two-way request
C1_ReturnedOthersResponse ==
    /\ \E c \in Callers :
            /\ caller[c].pc = "returned"
            /\ caller[c].req.k = "request"
            /\ caller[c].ret.k = "response"
            /\ caller[c].ret.id # caller[c].req.id
    /\ \A i \in 1..Len(s_log) : IsInvoke(s_log[i]) => s_log[i].msg.twoway

\* C2: the ids of the Response frames handle writes are the ids of the
\* received requests that have a handler, in the same order, and the handler
\* of a request is never invoked before the response to the request before
\* it has been written
C2_InArrivalOrder ==
    /\ \A i \in 1..Len(s_log) :
            IsInvoke(s_log[i]) => ResponseWritesIn(i - 1) = InvokesIn(i - 1)
    /\ \A i \in 1..Len(SelectSeq(s_log, IsResponseWrite)) :
            /\ i <= Len(SelectSeq(s_log, IsInvoke))
            /\ SelectSeq(s_log, IsResponseWrite)[i].id = SelectSeq(s_log, IsInvoke)[i].id
    /\ HandleAtRest =>
            Len(SelectSeq(s_log, IsResponseWrite)) = Len(SelectSeq(s_log, IsInvoke))

\* handle has ended after the call of a handler whose Response it never
\* wrote, the responses before it written in order
C2_RequestLeftUnanswered ==
    /\ s_pc \in {"closed", "ended"}
    /\ Idle("handle")
    /\ Len(SelectSeq(s_log, IsInvoke)) = 2
    /\ Len(SelectSeq(s_log, IsResponseWrite)) = 1
    /\ SelectSeq(s_log, IsResponseWrite)[1].id = SelectSeq(s_log, IsInvoke)[1].id

\* the Response that the outcome of the handler's call asks for: status 20
\* with the return value, the status and message of a DubboError, status 90
\* with str(err) of any other error (str(EOFError()) is '')
ExpectedResponse(e) ==
    CASE e.out.o = "return" -> DubboResponse(e.id, 20, e.out.val, PyNone)
      [] e.out.o = "DubboError" -> DubboResponse(e.id, e.out.status, PyNone, e.out.message)
      [] e.out.o = "Exception" -> DubboResponse(e.id, 90, PyNone, e.out.message)
      [] e.out.o = "EOFError" -> DubboResponse(e.id, 90, PyNone, PyStr(<<>>))

\* C3: for every request that has a handler the server writes exactly one
\* Response with the request's id, built from what the handler returned or
\* raised, and after writing it the loop keeps serving
C3_OneResponsePerCall ==
    /\ \A i \in 1..Len(s_log) :
            IsInvoke(s_log[i]) =>
                IF i < Len(s_log)
                THEN s_log[i + 1] = Written(ExpectedResponse(s_log[i]))
                ELSE \/ s_pc = "reply" /\ s_out = ExpectedResponse(s_log[i])
                     \/ sending["handle"] = ExpectedResponse(s_log[i])
    /\ \A i, j \in 1..Len(s_log) :
            (IsResponseWrite(s_log[i]) /\ IsResponseWrite(s_log[j]) /\ s_log[i].id = s_log[j].id)
                => i = j
    /\ (s_log # <<>> /\ IsResponseWrite(s_log[Len(s_log)])) => (s_open /\ s_pc \in {"decode", "reply"})

\* the handler returned a value, handle wrote no Response and has left its
\* loop with the socket closed
C3_ReturnValueNotEncodable ==
    /\ s_log # <<>>
    /\ IsInvoke(s_log[Len(s_log)])
    /\ s_log[Len(s_log)].out.o = "return"
    /\ s_pc = "ended"
    /\ ~s_open

\* the request names no registered handler: no entry of handler_map, or a
\* string that names no builtin
Unregistered(msg) ==
    LET handler == handler_map(utf8_decode(msg.service_name.s), utf8_decode(msg.method_name.s))
    IN  \/ handler.kind = "absent"
        \/ handler.kind = "str" /\ handler.name \notin Builtins

\* C4: for a request that names no registered handler the server calls
\* nothing and writes no frame, keeps the connection open and goes on
\* serving
C4_NoReplyWithoutHandler ==
    \A i \in 1..Len(s_log) :
        /\ IsInvoke(s_log[i]) => ~Unregistered(s_log[i].msg)
        /\ s_log[i].ev = "write" =>
                \A j \in 1..Len(s_log) :
                    (s_log[j].ev \in {"invoke", "drop"} /\ s_log[j].id = s_log[i].id)
                        => ~Unregistered(s_log[j].msg)
        /\ (s_log[i].ev = "drop" /\ i = Len(s_log)) => (s_open /\ s_pc = "decode")

\* handle has written a Response to a request whose handler is a string
\* that names no builtin
C4_RepliedWithoutHandler ==
    \E i, j \in 1..Len(s_log) :
        /\ i < j
        /\ IsInvoke(s_log[i])
        /\ Unregistered(s_log[i].msg)
        /\ IsResponseWrite(s_log[j])
        /\ s_log[j].id = s_log[i].id

\* the bytes on a socket are whole frames one after the other, the last one
\* possibly still being written
WholeFrames(wire) ==
    \A i \in 1..Len(wire) :
        /\ wire[i].part = "head" =>
                (i = Len(wire) \/ (wire[i + 1].part = "tail" /\ wire[i + 1].m = wire[i].m))
        /\ wire[i].part = "tail" =>
                (i = 1 \/ (wire[i - 1].part = "head" /\ wire[i - 1].m = wire[i].m))

\* C6: the threads that send on one socket never interleave the bytes of two
\* frames, on the client's socket or the server's
C6_WritesSerialised == WholeFrames(c2s) /\ WholeFrames(s2c)

\* the first part of one frame is followed on the client's socket by the
\* bytes of another thread's frame
C6_FramesInterleaved ==
    \E i \in 1..(Len(c2s) - 1) :
        /\ c2s[i].part = "head"
        /\ c2s[i + 1].m # c2s[i].m

\* ------------------------------------------------------------------------
\* Properties of one end-to-end call

\* C5: a two-way call of a registered handler h with primitive arguments a,
\* on an idle connection, returns the Response with the request's id,
\* status OK and data equal to h(a) whenever h(a) returns normally
C5_EndToEndCall ==
    call.pc \in {"returned", "timeout"} =>
        \A out \in invoke(lookup(call.req), call.req.args) :
            out.o = "return" =>
                /\ call.pc = "returned"
                /\ call.ret.k = "response"
                /\ call.ret.id = call.req.id
                /\ call.ret.status = 20
                /\ call.ret.error = PyNone
                /\ PyEq(call.ret.data, out.val)

\* the handler would return normally on the arguments the call was made
\* with, and the call has timed out
C5_CallTimedOut ==
    /\ call.pc = "timeout"
    /\ \A out \in invoke(lookup(call.req), call.req.args) : out.o = "return"

\* ------------------------------------------------------------------------
\* Properties of the Decoder over a stream

\* the offset in the stream at which the n-th item the peer wrote ends
RECURSIVE Boundary(_)
Boundary(n) == IF n = 0 THEN 0 ELSE Boundary(n - 1) + Len(wire_bytes(items[n]))

\* the item is a frame of 16 header bytes and the body its header states
WellFormed(item) ==
    /\ item.k # "telnet"
    /\ Len(wire_bytes(item)) = 16 + body_length(wire_bytes(item))

\* C7: however recv cuts the stream, a decode that starts at the first byte
\* of a frame consumes the 16 + body length bytes of that frame and not one
\* byte of what follows, whether the body can be parsed or not
C7_NoOverRead ==
    \A i \in 1..Len(results) :
        ( /\ results[i].kind = "frame"
          /\ i <= Len(items)
          /\ WellFormed(items[i])
          /\ i > 1 => results[i - 1].consumed = Boundary(i - 1) )
            => results[i].consumed = Boundary(i)

\* the first decode() read a whole well-formed frame and consumed bytes of
\* the item after it
C7_OverRead ==
    /\ Len(results) >= 1
    /\ results[1].kind = "frame"
    /\ WellFormed(items[1])
    /\ results[1].consumed > Boundary(1)

\* C8: every frame that encode() makes of a Request, a Response or a
\* heartbeat is 16 header bytes (magic, flag, status, 8 bytes of id, 4 bytes
\* of body length) and then as many body bytes as the length field states
C8_FrameLayout ==
    \A i \in 1..Len(items) :
        items[i].k \in {"request", "response", "hb_request", "hb_response"} =>
            /\ Len(encode(items[i])) >= 16
            /\ SubSeq(encode(items[i]), 1, 2) = <<218, 187>>
            /\ SubSeq(encode(items[i]), 5, 12) = BigEndian(items[i].id, 8)
            /\ Len(encode(items[i])) = 16 + body_length(encode(items[i]))

\* the peer has encoded a Response whose frame has not the length its
\* length field states
C8_HeaderTooLong ==
    \E i \in 1..Len(items) :
        /\ items[i].k = "response"
        /\ Len(encode(items[i])) # 16 + body_length(encode(items[i]))

\* the shortest prefix of bs that ends with the prompt
ShortestPromptPrefix(bs) ==
    SubSeq(bs, 1, CHOOSE n \in 1..Len(bs) :
                      /\ endswith(SubSeq(bs, 1, n), <<13, 10, 100, 117, 98, 98, 111, 62>>)
                      /\ \A m \in 1..(n - 1) :
                            ~endswith(SubSeq(bs, 1, m), <<13, 10, 100, 117, 98, 98, 111, 62>>))

\* the offset in the stream at which the i-th decode() began
StartOf(i) == IF i = 1 THEN 0 ELSE results[i - 1].consumed

\* C9: a decode whose first two bytes are not the magic returns the shortest
\* prefix of the stream, from those two bytes on, that ends with the prompt
\* "\r\ndubbo>", and consumes nothing after the prompt
C9_TelnetUpToPrompt ==
    \A i \in 1..Len(results) :
        results[i].kind = "telnet" =>
            /\ results[i].val.line
                    = ShortestPromptPrefix(SubSeq(stream, StartOf(i) + 1, Len(stream)))
            /\ results[i].consumed = StartOf(i) + Len(results[i].val.line)

\* a decode in telnet mode returned more than the bytes up to the first
\* prompt
C9_ReadPastPrompt ==
    \E i \in 1..Len(results) :
        /\ results[i].kind = "telnet"
        /\ Len(results[i].val.line)
                > Len(ShortestPromptPrefix(SubSeq(stream, StartOf(i) + 1, Len(stream))))

\* C10: decoding a frame whose flag byte names a serialization other than 2
\* in its low five bits fails and returns no message
C10_UnsupportedSerialization ==
    \A i \in 1..Len(results) :
        (results[i].kind = "frame" /\ results[i].flag % 32 # 2) => results[i].st # "ok"

\* decode() returned a message from a frame whose flag names serialization 3
C10_ForeignFrameDecoded ==
    \E i \in 1..Len(results) :
        /\ results[i].kind = "frame"
        /\ results[i].flag % 32 = 3
        /\ results[i].st = "ok"
        /\ results[i].val.k = "response"

\* ------------------------------------------------------------------------
\* Properties of the codec

\* C11: whenever the parse of a frame's body needs a byte beyond the stated
\* body length, decode fails and returns no message
C11_TruncatedBodyFails ==
    (unit.op = "decode" /\ unit.cut < unit.needs) => unit.res.st # "ok"

\* a request whose body ends inside its attachment map, after a key without
\* its value, was decoded to a DubboRequest
C11_TruncatedMapDecoded ==
    /\ unit.op = "decode"
    /\ unit.m.k = "request"
    /\ unit.m.attachment.kv # <<>>
    /\ unit.cut < unit.needs
    /\ unit.res.st = "ok"
    /\ unit.res.val.attachment = PyDict(<<>>)

\* C12: for every int and long n, encode_object(n) succeeds, and the object
\* decoder on exactly those bytes returns n and consumes all of them
C12_IntegerRoundTrip ==
    (unit.op = "encode_object" /\ unit.field.t \in {"int", "long"}) =>
        /\ ~IsFail(unit.bytes)
        /\ unit.res.st = "ok"
        /\ PyEq(unit.res.val, unit.field)
        /\ unit.res.pos = Len(unit.bytes)

\* the int 262144 was encoded as 'I' and four bytes, which _read_object
\* answered with an exception
C12_FourByteIntNotDecoded ==
    /\ unit.op = "encode_object"
    /\ unit.field = PyInt(262144)
    /\ unit.bytes = <<73, 0, 4, 0, 0>>
    /\ unit.res.st = "err"

\* the form the ranges of C13 ask for: the tag base of the one-, two- and
\* three-byte forms, and the tag before four signed bytes
NarrowestForm(n, one, lo, hi, two, three, four) ==
    IF lo <= n /\ n <= hi THEN <<n + one>>
    ELSE IF -2048 <= n /\ n <= 2047 THEN BigEndian(two * 256 + n, 2)
    ELSE IF -262144 <= n /\ n <= 262143 THEN BigEndian(three * 65536 + n, 3)
    ELSE <<four>> \o to_bytes(n, 4, TRUE)

\* C13: an int or long is encoded in the form of the first range it falls
\* in: one byte, two bytes, three bytes, else a tag and four signed bytes
C13_NarrowestIntegerForm ==
    /\ (unit.op = "encode_object" /\ unit.field.t = "int") =>
            unit.bytes = NarrowestForm(unit.field.v, 144, -16, 47, 200, 212, 73)
    /\ (unit.op = "encode_object" /\ unit.field.t = "long") =>
            unit.bytes = NarrowestForm(unit.field.v, 224, -8, 15, 248, 60, 89)

\* encode_object raised for the int -262145, below the three-byte range
C13_NegativeIntNotEncoded ==
    /\ unit.op = "encode_object"
    /\ unit.field = PyInt(-262145)
    /\ unit.bytes = Fail

\* C14: a double with an integral value is encoded as 0x5B for 0, 0x5C for
\* 1, 0x5D and one signed byte in [-128, 127], 0x5E and two signed bytes in
\* [-32768, 32767], and decoding those bytes returns the same value
C14_CompactDouble ==
    (/\ unit.op = "encode_object"
     /\ unit.field.t = "float"
     /\ unit.field.s = <<>>
     /\ unit.field.v \in -32768..32767) =>
        /\ unit.bytes = IF unit.field.v = 0 THEN <<91>>
                        ELSE IF unit.field.v = 1 THEN <<92>>
                        ELSE IF unit.field.v \in -128..127
                             THEN <<93>> \o to_bytes(unit.field.v, 1, TRUE)
                             ELSE <<94>> \o to_bytes(unit.field.v, 2, TRUE)
        /\ unit.res.st = "ok"
        /\ PyEq(unit.res.val, unit.field)

\* encode_object raised for the double 128.0
C14_DoubleNotEncoded ==
    /\ unit.op = "encode_object"
    /\ unit.field = PyFloat(128)
    /\ unit.bytes = Fail

\* C15: decoding r.encode() of a Response r returns a Response with r's id
\* and status, with r's data and no error when the status is OK, and with
\* no data and r's error otherwise
C15_ResponseRoundTrip ==
    (unit.op = "round_trip" /\ unit.m.k = "response") =>
        /\ unit.res.st = "ok"
        /\ unit.res.val.k = "response"
        /\ unit.res.val.id = unit.m.id
        /\ unit.res.val.status = unit.m.status
        /\ IF unit.m.status = DubboResponse_OK
           THEN PyEq(unit.res.val.data, unit.m.data) /\ unit.res.val.error = PyNone
           ELSE unit.res.val.data = PyNone /\ PyEq(unit.res.val.error, unit.m.error)

\* the frame of an OK Response with data 262144 was not decoded
C15_ResponseNotDecoded ==
    /\ unit.op = "round_trip"
    /\ unit.m = DubboResponse(1, DubboResponse_OK, PyInt(262144), PyNone)
    /\ ~IsFail(unit.frame)
    /\ unit.res.st = "err"

\* C16: decoding the frame of a heartbeat request returns a heartbeat
\* request with the same id, no data and the same twoway; decoding the frame
\* of a heartbeat response returns a heartbeat response with the same id and
\* no data; bit 7 of the flag byte is set only for the request, bit 5
\* always, bit 6 exactly when twoway
C16_HeartbeatRoundTrip ==
    (unit.op = "round_trip" /\ unit.m.k \in {"hb_request", "hb_response"}) =>
        /\ ~IsFail(unit.frame)
        /\ unit.res.st = "ok"
        /\ unit.res.val.k = unit.m.k
        /\ unit.res.val.id = unit.m.id
        /\ unit.res.val.data = PyNone
        /\ unit.m.k = "hb_request" => unit.res.val.twoway = unit.m.twoway
        /\ HasFlag(unit.frame[3], 128) <=> unit.m.k = "hb_request"
        /\ HasFlag(unit.frame[3], 32)
        /\ HasFlag(unit.frame[3], 64) <=> unit.m.twoway

\* the two-way heartbeat request with the largest id came back from its frame
C16_HeartbeatDecoded ==
    /\ unit.op = "round_trip"
    /\ unit.m = DubboHeartBeatRequest(2147483647, PyNone, TRUE)
    /\ unit.frame[3] = 226
    /\ unit.res.st = "ok"
    /\ unit.res.val = unit.m

\* how often the byte string part occurs in bs
Occurrences(bs, part) ==
    Cardinality({i \in 1..(Len(bs) - Len(part) + 1) : SubSeq(bs, i, i + Len(part) - 1) = part})

\* C17: within one encoding the class definition block of a class is
\* emitted only before its first instance; later instances of the class
\* come without a C block
C17_ClassDefinitionOnce ==
    unit.op = "encode_record" =>
        \A o \in Objects \cup {Child(3)} : Occurrences(unit.bytes, object_def(o)) <= 1

\* the encoding of an object with two instances of class child holds the
\* class definition block of child twice
C17_ClassDefinitionRepeated ==
    /\ unit.op = "encode_record"
    /\ ~unit.default
    /\ unit.field = PyObject(family, << <<letter_a, Child(2)>>, <<letter_c, Child(3)>> >>)
    /\ Occurrences(unit.bytes, object_def(Child(2))) = 2

\* C18: encode_object(v) with default arguments returns the bytes it returns
\* as the first call of a fresh process, whatever calls came before
C18_TableDoesNotOutliveEncode ==
    (unit.op = "encode_record" /\ unit.default) => unit.bytes = unit.fresh

\* after an earlier call with default arguments, encode_object(v) returned
\* other bytes than a first call returns
C18_TableKeptBetweenCalls ==
    /\ unit.op = "encode_record"
    /\ unit.default
    /\ cls_names = <<child, test>>
    /\ ~IsFail(unit.bytes)
    /\ unit.bytes # unit.fresh

\* ------------------------------------------------------------------------
\* Properties of DubboService.register

\* name=value of the fields, joined by "&"
RECURSIVE JoinFields(_)
JoinFields(fields) ==
    IF Len(fields) = 1 THEN fields[1][1] \o <<61>> \o fields[1][2]
    ELSE fields[1][1] \o <<61>> \o fields[1][2] \o <<38>> \o JoinFields(Tail(fields))

\* the provider URL that C19 describes: the fields in their order, the
\* group field there exactly when a group is given
UrlOfFields(service, methods, version, revision, group, pid) ==
    <<100, 117, 98, 98, 111, 58, 47, 47>> \o _host \o <<58>> \o str_int(_port) \o <<47>> \o service \o <<63>>
    \o JoinFields(
            << <<<<97, 110, 121, 104, 111, 115, 116>>, <<116, 114, 117, 101>>>>,
               <<<<97, 112, 112, 108, 105, 99, 97, 116, 105, 111, 110>>, _app>>,
               <<<<100, 117, 98, 98, 111>>, _dubbo_version>> >>
            \o (IF group = <<>> THEN <<>> ELSE << <<<<103, 114, 111, 117, 112>>, group>> >>)
            \o << <<<<105, 110, 116, 101, 114, 102, 97, 99, 101>>, service>>,
                  <<<<109, 101, 116, 104, 111, 100, 115>>, join_comma(methods)>>,
                  <<<<112, 105, 100>>, str_int(pid)>>,
                  <<<<114, 101, 118, 105, 115, 105, 111, 110>>, revision>>,
                  <<<<115, 105, 100, 101>>, <<112, 114, 111, 118, 105, 100, 101, 114>>>>,
                  <<<<116, 105, 109, 101, 115, 116, 97, 109, 112>>, str_int(get_timestamp)>>,
                  <<<<118, 101, 114, 115, 105, 111, 110>>, version>> >>)

\* how many paths the calls of register before the k-th have ensured
RECURSIVE EnsuredBefore(_)
EnsuredBefore(k) ==
    IF k <= 1 THEN 0 ELSE EnsuredBefore(k - 1) + Len(ensured[k - 1].paths)

\* C19: each call of register ensures one provider path per registered
\* service, /dubbo/<service>/providers/<percent-encoded URL>, the URL with
\* its fields in order and "&group=<grp>" exactly when a group is given, the
\* pid the next value of the one counter 1, 2, 3, ...
C19_ProviderPaths ==
    \A k \in 1..Len(ensured) :
        /\ Len(ensured[k].paths) = Len(ensured[k].services)
        /\ \A i \in 1..Len(ensured[k].paths) :
                ensured[k].paths[i] =
                    <<47, 100, 117, 98, 98, 111, 47>> \o ensured[k].services[i][1]
                    \o <<47, 112, 114, 111, 118, 105, 100, 101, 114, 115, 47>>
                    \o quote_plus(UrlOfFields(ensured[k].services[i][1],
                                              ensured[k].services[i][2],
                                              ensured[k].version, ensured[k].revision,
                                              ensured[k].group,
                                              EnsuredBefore(k) + i))

\* register with a group has ensured a path in whose URL the group follows
\* the dubbo version without a "&": ...dubbo=2.5.3group=grp&interface=...
C19_GroupWithoutSeparator ==
    /\ Len(ensured) = 1
    /\ ensured[1].group = grp
    /\ ensured[1].services = << <<a_service, <<doGet>>>> >>
    /\ Occurrences(ensured[1].paths[1],
                   quote_plus(
        <<38, 100, 117, 98, 98, 111, 61, 50, 46, 53, 46, 51, 103, 114, 111, 117, 112, 61,
        103, 114, 112, 38, 105, 110, 116, 101, 114, 102, 97, 99, 101, 61>>)) = 1

\* ------------------------------------------------------------------------
\* Properties of DubboClient._recv_loop

\* the message the next decode() of _recv_loop returns
NextDecoded == Receive(s2c).r

\* the frames sendall may have put on the socket for message m
Sent(wire, m) == {Append(wire, Frag(m, part)) : part \in {"whole", "head"}}

\* C20: a turn of the receive loop queues the decoded message, at the end
\* of the queue, exactly when it is a Response or a telnet line; for a
\* two-way HeartbeatRequest it sends one HeartbeatResponse with the same id
\* and queues nothing; for any other heartbeat it sends and queues nothing;
\* no heartbeat is queued or returned to a caller
C20_ReceiveLoopDispatch ==
    /\ [][Len(s2c') < Len(s2c) /\ NextDecoded.st = "ok" =>
            /\ _msg_queue' = IF NextDecoded.val.k \in {"response", "telnet"}
                             THEN Append(_msg_queue, NextDecoded.val)
                             ELSE _msg_queue
            /\ IF NextDecoded.val.k = "hb_request" /\ NextDecoded.val.twoway
               THEN c2s' \in Sent(c2s, DubboHeartBeatResponse(NextDecoded.val.id,
                                                              PyNone, FALSE))
               ELSE c2s' = c2s]_vars
    /\ [](/\ \A i \in 1..Len(_msg_queue) :
                _msg_queue[i].k \notin {"hb_request", "hb_response"}
          /\ \A c \in Callers : caller[c].ret.k \notin {"hb_request", "hb_response"})

\* the peer has written a Request, the receive loop has queued it, and
\* send_request_and_return_response has returned it to its caller
C20_RequestReturnedToCaller ==
    \E c \in Callers :
        /\ caller[c].pc = "returned"
        /\ caller[c].ret.k = "request"
        /\ caller[c].ret.method_name.s = work

\* ------------------------------------------------------------------------
\* Properties of the class definitions of the codec

\* a and b are the same value: records of one class with the same field
\* names and the same values, lists and dicts with the same members
RECURSIVE SameValue(_, _)
SameValue(a, b) ==
    IF a.t = "object" \/ b.t = "object"
    THEN /\ a.t = b.t
         /\ a.cls = b.cls
         /\ Len(a.fields) = Len(b.fields)
         /\ \A i \in 1..Len(a.fields) :
                /\ a.fields[i][1] = b.fields[i][1]
                /\ SameValue(a.fields[i][2], b.fields[i][2])
    ELSE IF a.t = "list" \/ b.t = "list"
    THEN /\ a.t = b.t
         /\ Len(a.items) = Len(b.items)
         /\ \A i \in 1..Len(a.items) : SameValue(a.items[i], b.items[i])
    ELSE IF a.t = "dict" \/ b.t = "dict"
    THEN /\ a.t = b.t
         /\ Len(a.kv) = Len(b.kv)
         /\ \A i \in 1..Len(a.kv) :
                /\ SameValue(a.kv[i][1], b.kv[i][1])
                /\ SameValue(a.kv[i][2], b.kv[i][2])
    ELSE PyEq(a, b)

\* C21: what the encoder writes for a value or for the arguments of a
\* request, the decoder reads back: every instance byte 0x60+k finds entry
\* k in the table of the 'C' blocks read before it, that entry is the class
\* of the instance, and the decoded records equal the encoded ones
C21_ClassReferencesAgree ==
    /\ unit.op = "decode_value" =>
            /\ unit.res.st = "ok"
            /\ unit.res.pos = Len(unit.bytes)
            /\ SameValue(unit.res.val, unit.field)
    /\ unit.op = "decode_args" =>
            /\ unit.res.st = "ok"
            /\ unit.res.pos = Len(unit.bytes)
            /\ Len(unit.res.val) = Len(unit.field)
            /\ \A i \in 1..Len(unit.field) : SameValue(unit.res.val[i], unit.field[i])

\* args=[4, child(b=2)]: the record at index 1 is written with the instance
\* byte 0x61 after its one 'C' block, and the decoder finds no entry 1
C21_SecondArgumentNotFound ==
    /\ unit.op = "decode_args"
    /\ unit.field = <<PyInt(4), Child(2)>>
    /\ Occurrences(unit.bytes, <<67>>) = 1
    /\ unit.bytes[Len(unit.bytes) - 1] = 97
    /\ unit.res.st = "err"
    /\ Len(unit.res.refs) = 1

\* ------------------------------------------------------------------------
\* Properties of the ids of DubboClient

\* the places of c2s where a frame that carries an id of the client's
\* counter begins
IdFrames ==
    {p \in 1..Len(c2s) : c2s[p].part # "tail" /\ c2s[p].m.k \in {"request", "hb_request"}}

\* C22: the frames of the client reach the socket in the order in which
\* their calls drew their ids
C22_SubmissionOrder ==
    \A p \in IdFrames, q \in IdFrames : p < q => c2s[p].m.id < c2s[q].m.id

\* the caller that drew id 1 has not reached sendall when the caller that
\* drew id 2 writes its frame: the frame with id 2 is first on the socket
C22_LaterIdWrittenFirst ==
    /\ Len(c2s) >= 2
    /\ c2s[1] = Frag(caller["t2"].req, "whole")
    /\ c2s[2] = Frag(caller["t1"].req, "whole")
    /\ caller["t1"].req.id = 1
    /\ caller["t2"].req.id = 2

\* a caller or the heartbeat loop has drawn an id in this step
DrawsId ==
    \/ \E c \in Callers : caller'[c].req # caller[c].req /\ caller'[c].req # NoMsg
    \/ c_beats'.id # c_beats.id

\* the id drawn in this step
DrawnIds ==
    {caller'[c].req.id : c \in {d \in Callers : /\ caller'[d].req # caller[d].req
                                                 /\ caller'[d].req # NoMsg}}
    \cup (IF c_beats'.id # c_beats.id THEN {c_beats'.id} ELSE {})

\* C23: the ids drawn from the counter of one client are 1, 2, 3, ...:
\* every draw of a two-way call, a one-way call or the heartbeat loop takes
\* the value of the counter and moves it on by one, nothing else moves the
\* counter, and no id is handed out before the first draw
C23_FreshIds ==
    /\ [][/\ DrawsId => DrawnIds = {_request_id} /\ _request_id' = _request_id + 1
          /\ ~DrawsId => _request_id' = _request_id]_vars
    /\ [](_request_id = 1 =>
            /\ \A c \in Callers : caller[c].req = NoMsg
            /\ c_beats.id = 0
            /\ IdFrames = {})

\* a caller drew id 1 and its call raised, the heartbeat loop and the other
\* caller drew 2 and 3: the id of the failed call was not handed out again
C23_IdsDrawnByAll ==
    /\ _request_id = 4
    /\ \E c \in Callers, d \in Callers :
            /\ c # d
            /\ caller[c].pc = "raised"
            /\ caller[c].req.id = 1
            /\ caller[d].req # NoMsg
            /\ {caller[d].req.id, c_beats.id} = {2, 3}

\* ------------------------------------------------------------------------
\* Properties of one-way requests

\* the request with this id that handle has invoked was one-way
InvokedOneWay(id) ==
    \E j \in 1..Len(s_log) :
        IsInvoke(s_log[j]) /\ s_log[j].id = id /\ ~s_log[j].msg.twoway

\* a caller's last request has this id and was sent by
\* send_request_without_response
SentOneWay(id) ==
    \E c \in Callers :
        caller[c].req # NoMsg /\ caller[c].req.id = id /\ ~caller[c].req.twoway

\* C24: the server writes no Response for a one-way request, and no message
\* on the client's queue answers a request sent without response
C24_NoResponseToOneWay ==
    /\ \A i \in 1..Len(s_log) : IsResponseWrite(s_log[i]) => ~InvokedOneWay(s_log[i].id)
    /\ \A i \in 1..Len(_msg_queue) :
            _msg_queue[i].k = "response" => ~SentOneWay(_msg_queue[i].id)

\* send_request_without_response has returned, the server has invoked the
\* handler and written its Response, and the receive loop has queued it
C24_OneWayAnswerQueued ==
    \E c \in Callers :
        /\ caller[c].pc = "idle"
        /\ caller[c].req # NoMsg
        /\ ~caller[c].req.twoway
        /\ InvokedOneWay(caller[c].req.id)
        /\ \E i \in 1..Len(s_log) :
                IsResponseWrite(s_log[i]) /\ s_log[i].id = caller[c].req.id
        /\ \E i \in 1..Len(_msg_queue) :
                /\ _msg_queue[i].k = "response"
                /\ _msg_queue[i].id = caller[c].req.id
                /\ _msg_queue[i].status = DubboResponse_OK

\* ------------------------------------------------------------------------
\* Properties of the end of DubboClient._recv_loop

\* C25: the receive loop has stopped only if the peer has closed the
\* connection and everything it wrote has been read; a frame that fails to
\* decode leaves the loop running
C25_StopsOnlyAtEndOfStream ==
    c_recv # "run" => ~s_open /\ s2c = <<>>

\* the peer wrote a Response whose body ends in a lone 'Z' and then a
\* well-formed Response: the loop has stopped on the first as on an end of
\* stream, the connection is open, the second Response stays unread and
\* the caller that waited for it has timed out
C25_StoppedByStrayZ ==
    /\ c_recv = "stopped"
    /\ s_open
    /\ s2c = <<Frag(DubboResponse(2, DubboResponse_OK, PyInt(8), PyNone), "whole")>>
    /\ _msg_queue = <<>>
    /\ \E c \in Callers : caller[c].pc = "timeout"

\* ------------------------------------------------------------------------
\* Properties of a server connection that its peer closes

\* handle has left its loop and the socket is closed
HandlerDone == s_pc \in {"closed", "ended"} /\ ~s_open

\* C26: once the peer has closed, handle comes to shut down and close the
\* socket and to leave its loop; on the closed socket a send attempt of the
\* heartbeat loop ends that loop, a loop that has ended stays so, and no
\* byte is written to the connection any more
C26_ClosedByPeer ==
    /\ PeerGone ~> HandlerDone
    /\ [][/\ HandlerDone => HandlerDone'
          /\ ~s_open => s2c' = s2c
          /\ ~s_open /\ s_beats'.n # s_beats.n => s_beats'.pc = "dead"
          /\ ~s_open /\ sending["s_heartbeat_loop"] # sending'["s_heartbeat_loop"] =>
                s_beats'.pc = "dead"
          /\ s_beats.pc = "dead" => s_beats' = s_beats]_vars

\* the peer made a call and closed; handle answered the call, met the end
\* of the stream and closed the socket; the heartbeat loop then tried to
\* send and has ended
C26_BothLoopsEnded ==
    /\ s_pc = "closed"
    /\ ~s_open
    /\ c2s = <<>>
    /\ \E i \in 1..Len(s_log) : IsResponseWrite(s_log[i])
    /\ s_beats = [pc |-> "dead", n |-> 1]

\* a decoded heartbeat message of kind k
IsBeat(r, k) == r.st = "ok" /\ r.val.k = k

\* the receive loop, or handle, takes a message off its socket in this step
ClientReads == Len(s2c') < Len(s2c)
ServerReads == Len(c2s') < Len(c2s)

\* the frames of kind k that lie on a socket
BeatFrames(wire, k) ==
    Cardinality({p \in 1..Len(wire) : wire[p].part # "tail" /\ wire[p].m.k = k})

\* the heartbeat responses handle has written
BeatAnswers ==
    Cardinality({i \in 1..Len(s_log) : s_log[i].ev = "write" /\ s_log[i].m.k = "hb_response"})

\* C27: heartbeats do not cascade.  A step that reads a heartbeat response
\* sends nothing; a step that reads a heartbeat request sends at most one
\* heartbeat response, with the id of the request; a heartbeat request is
\* written only by a heartbeat loop that woke, a heartbeat response only
\* for a heartbeat request that was read; so each wake-up of a side has at
\* most one frame on its way, and handle has answered no more heartbeats
\* than the client's loop woke
C27_NoCascade ==
    /\ [][/\ ClientReads /\ IsBeat(NextDecoded, "hb_response") =>
                c2s' = c2s /\ sending' = sending
          /\ ClientReads /\ IsBeat(NextDecoded, "hb_request") =>
                \/ c2s' = c2s /\ sending' = sending
                \/ c2s' \in Sent(c2s, DubboHeartBeatResponse(NextDecoded.val.id, PyNone, FALSE))
          /\ ServerReads /\ IsBeat(Receive(c2s).r, "hb_response") =>
                s_pc' = "decode" /\ s_out' = NoMsg /\ s2c' = s2c /\ sending' = sending
          /\ ServerReads /\ IsBeat(Receive(c2s).r, "hb_request") =>
                /\ s_out' = DubboHeartBeatResponse(Receive(c2s).r.val.id, PyNone, FALSE)
                /\ s2c' = s2c /\ sending' = sending
          /\ Len(c2s') > Len(c2s) /\ c2s'[Len(c2s')].part # "tail" =>
                LET m == c2s'[Len(c2s')].m
                IN  /\ m.k = "hb_request" => c_beats.pc = "send" /\ m.id = c_beats.id
                    /\ m.k = "hb_response" =>
                          /\ ClientReads
                          /\ IsBeat(NextDecoded, "hb_request")
                          /\ m.id = NextDecoded.val.id
          /\ Len(s2c') > Len(s2c) /\ s2c'[Len(s2c')].part # "tail" =>
                LET m == s2c'[Len(s2c')].m
                IN  /\ m.k = "hb_request" => s_beats'.n = s_beats.n + 1
                    /\ m.k = "hb_response" => s_pc = "reply" /\ m = s_out
          /\ s_out' # s_out /\ s_out'.k = "hb_response" =>
                ServerReads /\ IsBeat(Receive(c2s).r, "hb_request")]_vars
    /\ [](/\ BeatFrames(c2s, "hb_request") + BeatFrames(s2c, "hb_response")
                + (IF s_out.k = "hb_response" THEN 1 ELSE 0) <= c_beats.n
          /\ BeatFrames(s2c, "hb_request") + BeatFrames(c2s, "hb_response") <= s_beats.n
          /\ BeatAnswers <= c_beats.n)

\* both heartbeat loops woke MaxBeats times; the client answered the server's
\* heartbeats and handle the client's; every frame has been read, and
\* nothing more is on its way
C27_BeatsAnswered ==
    /\ c_beats = [pc |-> "sleep", id |-> MaxBeats, n |-> MaxBeats]
    /\ s_beats = [pc |-> "run", n |-> MaxBeats]
    /\ c_recv = "run"
    /\ s_pc = "decode"
    /\ BeatAnswers = MaxBeats
    /\ c2s = <<>>
    /\ s2c = <<>>
    /\ \A t \in Threads : Idle(t)
=============================================================================
